---- MODULE Spec2Model ----
(***************************************************************************)
(* A model of mrpt::maps::CPointsMapXYZI (libs/maps/src/maps/              *)
(* CPointsMapXYZI.cpp): the four parallel point buffers, the operations    *)
(* that resize, fill, read and write them, and the text and KITTI binary   *)
(* loaders and savers.                                                     *)
(*                                                                         *)
(* A float is represented by its IEEE-754 single-precision bit pattern,    *)
(* read as a two's complement 32-bit integer (0.0 = 0, 1.0 = 1065353216),  *)
(* so that the binary record encoding is computed byte by byte and the     *)
(* "%f" text formatting is a real, lossy, conversion.                      *)
(***************************************************************************)
EXTENDS Integers, Sequences, FiniteSets, TLC

VARIABLES
    m_x,          \* std::vector<float>: x coordinates
    m_y,          \* std::vector<float>: y coordinates
    m_z,          \* std::vector<float>: z coordinates
    m_intensity,  \* std::vector<float>: per-point intensity
    modified,     \* "CLEAN" or "DIRTY": what mark_as_modified() raises
    kittiFiles,   \* the binary files on disk, by file name
    textFiles,    \* the text files on disk, by file name
    op,           \* the last public operation called, with its arguments
    ret,          \* how that call came back: its status and its outputs
    lm,           \* CLevenbergMarquardtTempl::execute: arguments, locals, position
    out_info,     \* the TResultInfo the caller passes to execute
    out_optimal_x, \* the vector the caller passes to execute (x refers to it)
    last,         \* the arguments and results of the call of execute before
    bench         \* a matrix benchmark: its matrices A, B, C and its position

vars == <<m_x, m_y, m_z, m_intensity, modified, kittiFiles, textFiles, op, ret,
          lm, out_info, out_optimal_x, last, bench>>

\* The variables of the solver and of the matrix benchmarks, which the
\* point cloud leaves alone.
solver == <<lm, out_info, out_optimal_x, last, bench>>

cloud == <<m_x, m_y, m_z, m_intensity>>

---------------------------------------------------------------------------
(* Bounds of the model *)

\* The largest point count the in-memory operations grow a cloud to.
MaxPts == 2

---------------------------------------------------------------------------
(* Floats *)

\* 0.0f: the fill value of the coordinate buffers
F_ZERO == 0
\* 1.0f: the fill value m_intensity.resize() uses
F_ONE == 1065353216

\* 0.5f, 2.0f, 3.0f and 3e-7f (a value "%f" prints as 0.000000)
F_HALF == F_ONE - 8388608
F_TWO == F_ONE + 8388608
F_THREE == F_TWO + 4194304
F_TINY == F_ONE - 182382672

\* The coordinates and intensities the callers pass in.
InPoints == {<<F_ONE, F_TWO, F_THREE>>, <<F_THREE, F_ONE, F_TWO>>}
InIntensity == {F_HALF}

Min(a, b) == IF a < b THEN a ELSE b

\* std::vector<float>::resize(n, fill): old entries kept, new ones filled.
VecResize(v, n, fill) == [i \in 1..n |-> IF i <= Len(v) THEN v[i] ELSE fill]

\* std::vector<float>::assign(n, fill): every entry is the fill value.
VecAssign(n, fill) == [i \in 1..n |-> fill]

\* CPointsMap::mark_as_modified(): dependent structures must be rebuilt.
mark_as_modified == "DIRTY"

\* The record kept of a call: its name and arguments.
Call(name, n, pt, val, file) ==
    [name |-> name, n |-> n, pt |-> pt, val |-> val, file |-> file]

\* How a call came back.
Returned(status, out) == [status |-> status, out |-> out]

\* The solver while no call of execute has been made.
NoCall == [pc |-> "idle"]

\* The benchmarks while none runs.
NoBench == [pc |-> "idle"]

---------------------------------------------------------------------------
(* In-memory operations *)

reserve(newLength) ==
    /\ op' = Call("reserve", newLength, <<>>, 0, <<>>)
    /\ ret' = Returned("ok", <<>>)
    /\ UNCHANGED <<m_x, m_y, m_z, m_intensity, modified, kittiFiles, textFiles, solver>>

\* resize() without its mark_as_modified() call.
resize_mut(newLength) ==
    /\ m_x' = VecResize(m_x, newLength, F_ZERO)
    /\ m_y' = VecResize(m_y, newLength, F_ZERO)
    /\ m_z' = VecResize(m_z, newLength, F_ZERO)
    /\ m_intensity' = VecResize(m_intensity, newLength, F_ONE)
    /\ modified' = modified
    /\ op' = Call("resize", newLength, <<>>, 0, <<>>)
    /\ ret' = Returned("ok", <<>>)
    /\ UNCHANGED <<kittiFiles, textFiles, solver>>

resize(newLength) ==
    /\ m_x' = VecResize(m_x, newLength, F_ZERO)
    /\ m_y' = VecResize(m_y, newLength, F_ZERO)
    /\ m_z' = VecResize(m_z, newLength, F_ZERO)
    /\ m_intensity' = VecResize(m_intensity, newLength, F_ONE)
    /\ modified' = mark_as_modified
    /\ op' = Call("resize", newLength, <<>>, 0, <<>>)
    /\ ret' = Returned("ok", <<>>)
    /\ UNCHANGED <<kittiFiles, textFiles, solver>>

\* setSize() with m_intensity resized (old entries kept) instead of assigned.
setSize_mut(newLength) ==
    /\ m_x' = VecAssign(newLength, F_ZERO)
    /\ m_y' = VecAssign(newLength, F_ZERO)
    /\ m_z' = VecAssign(newLength, F_ZERO)
    /\ m_intensity' = VecResize(m_intensity, newLength, F_ZERO)
    /\ modified' = mark_as_modified
    /\ op' = Call("setSize", newLength, <<>>, 0, <<>>)
    /\ ret' = Returned("ok", <<>>)
    /\ UNCHANGED <<kittiFiles, textFiles, solver>>

setSize(newLength) ==
    /\ m_x' = VecAssign(newLength, F_ZERO)
    /\ m_y' = VecAssign(newLength, F_ZERO)
    /\ m_z' = VecAssign(newLength, F_ZERO)
    /\ m_intensity' = VecAssign(newLength, F_ZERO)
    /\ modified' = mark_as_modified
    /\ op' = Call("setSize", newLength, <<>>, 0, <<>>)
    /\ ret' = Returned("ok", <<>>)
    /\ UNCHANGED <<kittiFiles, textFiles, solver>>

\* The buffers and flag that internal_clear() leaves behind.
internal_clear ==
    /\ m_x' = <<>>
    /\ m_y' = <<>>
    /\ m_z' = <<>>
    /\ m_intensity' = <<>>
    /\ modified' = mark_as_modified

\* CMetricMap::clear(), which calls internal_clear().
clear ==
    /\ internal_clear
    /\ op' = Call("clear", 0, <<>>, 0, <<>>)
    /\ ret' = Returned("ok", <<>>)
    /\ UNCHANGED <<kittiFiles, textFiles, solver>>

\* setPointRGB() raising the flag before its bounds check.
setPointRGB_mut(index, x, y, z, R) ==
    /\ op' = Call("setPointRGB", index, <<x, y, z>>, R, <<>>)
    /\ modified' = mark_as_modified
    /\ IF index >= Len(m_x)
       THEN /\ ret' = Returned("throw", <<>>)
            /\ UNCHANGED <<m_x, m_y, m_z, m_intensity>>
       ELSE /\ m_x' = [m_x EXCEPT ![index + 1] = x]
            /\ m_y' = [m_y EXCEPT ![index + 1] = y]
            /\ m_z' = [m_z EXCEPT ![index + 1] = z]
            /\ m_intensity' = [m_intensity EXCEPT ![index + 1] = R]
            /\ ret' = Returned("ok", <<>>)
    /\ UNCHANGED <<kittiFiles, textFiles, solver>>

\* index is 0-based, as in the code; the buffers are 1-based sequences.
setPointRGB(index, x, y, z, R) ==
    /\ op' = Call("setPointRGB", index, <<x, y, z>>, R, <<>>)
    /\ IF index >= Len(m_x)
       THEN /\ ret' = Returned("throw", <<>>)
            /\ UNCHANGED <<m_x, m_y, m_z, m_intensity, modified>>
       ELSE /\ m_x' = [m_x EXCEPT ![index + 1] = x]
            /\ m_y' = [m_y EXCEPT ![index + 1] = y]
            /\ m_z' = [m_z EXCEPT ![index + 1] = z]
            /\ m_intensity' = [m_intensity EXCEPT ![index + 1] = R]
            /\ modified' = mark_as_modified
            /\ ret' = Returned("ok", <<>>)
    /\ UNCHANGED <<kittiFiles, textFiles, solver>>

\* setPointIntensity() with the mark_as_modified() call it leaves out.
setPointIntensity_mut(index, I) ==
    /\ op' = Call("setPointIntensity", index, <<>>, I, <<>>)
    /\ IF index >= Len(m_x)
       THEN /\ ret' = Returned("throw", <<>>)
            /\ UNCHANGED <<m_intensity, modified>>
       ELSE /\ m_intensity' = [m_intensity EXCEPT ![index + 1] = I]
            /\ modified' = mark_as_modified
            /\ ret' = Returned("ok", <<>>)
    /\ UNCHANGED <<m_x, m_y, m_z, kittiFiles, textFiles, solver>>

setPointIntensity(index, I) ==
    /\ op' = Call("setPointIntensity", index, <<>>, I, <<>>)
    /\ IF index >= Len(m_x)
       THEN /\ ret' = Returned("throw", <<>>)
            /\ UNCHANGED <<m_intensity, modified>>
       ELSE /\ m_intensity' = [m_intensity EXCEPT ![index + 1] = I]
            /\ UNCHANGED modified
            /\ ret' = Returned("ok", <<>>)
    /\ UNCHANGED <<m_x, m_y, m_z, kittiFiles, textFiles, solver>>

\* The four buffers as one value, for the loops that fill them.
Bufs == [x |-> m_x, y |-> m_y, z |-> m_z, i |-> m_intensity]

\* The four push_back calls of insertPointFast, on buffers b.
insertPointFast_buffers(b, x, y, z) ==
    [x |-> Append(b.x, x), y |-> Append(b.y, y), z |-> Append(b.z, z),
     i |-> Append(b.i, F_ZERO)]

SetBufs(b) ==
    /\ m_x' = b.x
    /\ m_y' = b.y
    /\ m_z' = b.z
    /\ m_intensity' = b.i

\* insertPointFast() with the mark_as_modified() call it leaves out.
insertPointFast_mut(x, y, z) ==
    /\ SetBufs(insertPointFast_buffers(Bufs, x, y, z))
    /\ modified' = mark_as_modified
    /\ op' = Call("insertPointFast", 0, <<x, y, z>>, 0, <<>>)
    /\ ret' = Returned("ok", <<>>)
    /\ UNCHANGED <<kittiFiles, textFiles, solver>>

insertPointFast(x, y, z) ==
    /\ SetBufs(insertPointFast_buffers(Bufs, x, y, z))
    /\ UNCHANGED modified
    /\ op' = Call("insertPointFast", 0, <<x, y, z>>, 0, <<>>)
    /\ ret' = Returned("ok", <<>>)
    /\ UNCHANGED <<kittiFiles, textFiles, solver>>

insertPointRGB(x, y, z, R_intensity) ==
    /\ m_x' = Append(m_x, x)
    /\ m_y' = Append(m_y, y)
    /\ m_z' = Append(m_z, z)
    /\ m_intensity' = Append(m_intensity, R_intensity)
    /\ modified' = mark_as_modified
    /\ op' = Call("insertPointRGB", 0, <<x, y, z>>, R_intensity, <<>>)
    /\ ret' = Returned("ok", <<>>)
    /\ UNCHANGED <<kittiFiles, textFiles, solver>>

getPointRGB(index) ==
    /\ op' = Call("getPointRGB", index, <<>>, 0, <<>>)
    /\ ret' = IF index >= Len(m_x)
              THEN Returned("throw", <<>>)
              ELSE Returned("ok", <<m_x[index + 1], m_y[index + 1], m_z[index + 1],
                                    m_intensity[index + 1], m_intensity[index + 1],
                                    m_intensity[index + 1]>>)
    /\ UNCHANGED <<m_x, m_y, m_z, m_intensity, modified, kittiFiles, textFiles, solver>>

getPointIntensity(index) ==
    /\ op' = Call("getPointIntensity", index, <<>>, 0, <<>>)
    /\ ret' = IF index >= Len(m_x)
              THEN Returned("throw", <<>>)
              ELSE Returned("ok", <<m_intensity[index + 1]>>)
    /\ UNCHANGED <<m_x, m_y, m_z, m_intensity, modified, kittiFiles, textFiles, solver>>

\* The dependent structures (kd-tree, bounding box) are rebuilt from the
\* points, after which the cloud counts as unmodified again.
rebuildIndex ==
    /\ modified = "DIRTY"
    /\ modified' = "CLEAN"
    /\ op' = Call("rebuildIndex", 0, <<>>, 0, <<>>)
    /\ ret' = Returned("ok", <<>>)
    /\ UNCHANGED <<m_x, m_y, m_z, m_intensity, kittiFiles, textFiles, solver>>

---------------------------------------------------------------------------
(* Serialization: the archive serializeTo() writes and serializeFrom() reads *)

\* serializeTo(): the point count, then n floats of each buffer.
serializeTo(b) ==
    LET n == Len(b.x) IN
    [n |-> n, x |-> SubSeq(b.x, 1, n), y |-> SubSeq(b.y, 1, n),
     z |-> SubSeq(b.z, 1, n), i |-> SubSeq(b.i, 1, n)]

\* Two points, (1, 2, 3; 0.5) and (3, 2, 1; 1), that the files and archives
\* offered to the loaders hold.
FixtureBufs ==
    [x |-> <<F_ONE, F_THREE>>, y |-> <<F_TWO, F_TWO>>, z |-> <<F_THREE, F_ONE>>,
     i |-> <<F_HALF, F_ONE>>]

\* The first n points of buffers b.
Prefix(b, n) ==
    [x |-> SubSeq(b.x, 1, n), y |-> SubSeq(b.y, 1, n), z |-> SubSeq(b.z, 1, n),
     i |-> SubSeq(b.i, 1, n)]

\* The archives offered to serializeFrom(): written by serializeTo().
Archives == {serializeTo(Prefix(FixtureBufs, n)) : n \in 0..2}

serializeFrom(in, version) ==
    /\ op' = Call("serializeFrom", version, <<>>, in.n, <<>>)
    /\ IF version = 0
       THEN \* mark_as_modified(); resize(n); then the four buffers are read
            /\ modified' = mark_as_modified
            /\ m_x' = [k \in 1..in.n |-> in.x[k]]
            /\ m_y' = [k \in 1..in.n |-> in.y[k]]
            /\ m_z' = [k \in 1..in.n |-> in.z[k]]
            /\ m_intensity' = [k \in 1..in.n |-> in.i[k]]
            /\ ret' = Returned("ok", <<>>)
       ELSE /\ ret' = Returned("throw", <<>>)
            /\ UNCHANGED <<m_x, m_y, m_z, m_intensity, modified>>
    /\ UNCHANGED <<kittiFiles, textFiles, solver>>

---------------------------------------------------------------------------
(* Merging clouds: addFrom() and its class-specific step *)

\* The clouds offered as anotherMap: CPointsMapXYZI clouds of 0..2 points,
\* a CPointsMapXYZI as the text loader leaves it (one point, two intensity
\* entries), and CSimplePointsMap clouds of 0..2 points, which have no
\* intensity buffer.
OtherMaps ==
    {[type |-> "CPointsMapXYZI"] @@ Prefix(FixtureBufs, n) : n \in 0..2}
    \cup {[type |-> "CPointsMapXYZI", x |-> <<F_ONE>>, y |-> <<F_TWO>>,
           z |-> <<F_THREE>>, i |-> <<F_ZERO, F_HALF>>]}
    \cup {[type |-> "CSimplePointsMap", x |-> SubSeq(FixtureBufs.x, 1, n),
           y |-> SubSeq(FixtureBufs.y, 1, n), z |-> SubSeq(FixtureBufs.z, 1, n),
           i |-> <<>>] : n \in 0..2}

\* CPointsMapXYZI::addFrom_classSpecific on the intensity buffer: if the
\* dynamic_cast to CPointsMapXYZI succeeds, entries nPreviousPoints + i,
\* i < nOther, are overwritten from anotherMap; otherwise nothing is written.
addFrom_classSpecific(intensity, anotherMap, nPreviousPoints) ==
    LET nOther == Len(anotherMap.x) IN
    IF anotherMap.type = "CPointsMapXYZI"
    THEN [j \in 1..Len(intensity) |->
            IF j > nPreviousPoints /\ j <= nPreviousPoints + nOther
            THEN anotherMap.i[j - nPreviousPoints]
            ELSE intensity[j]]
    ELSE intensity

\* CPointsMap::addFrom(): resize() to the sum of the two sizes, copy the
\* coordinates, run the class-specific step, mark_as_modified().
addFrom(anotherMap) ==
    LET nThis == Len(m_x)
        nOther == Len(anotherMap.x)
        nTot == nThis + nOther
        Copy(v, w) == [j \in 1..nTot |-> IF j > nThis THEN w[j - nThis] ELSE v[j]]
    IN
    /\ m_x' = Copy(VecResize(m_x, nTot, F_ZERO), anotherMap.x)
    /\ m_y' = Copy(VecResize(m_y, nTot, F_ZERO), anotherMap.y)
    /\ m_z' = Copy(VecResize(m_z, nTot, F_ZERO), anotherMap.z)
    /\ m_intensity' = addFrom_classSpecific(VecResize(m_intensity, nTot, F_ONE),
                                            anotherMap, nThis)
    /\ modified' = mark_as_modified
    /\ op' = Call("addFrom", nThis, <<>>, 0, <<>>) @@ [anotherMap |-> anotherMap]
    /\ ret' = Returned("ok", <<>>)
    /\ UNCHANGED <<kittiFiles, textFiles, solver>>

---------------------------------------------------------------------------
(* Text files: a file is a sequence of lines, a line a sequence of the     *)
(* whitespace-separated tokens on it.                                      *)

\* os::fprintf("%f"): six decimals, so 3e-7 prints as 0.000000.
FormatFloat(v) ==
    CASE v = F_ZERO -> "0.000000"
      [] v = F_TINY -> "0.000000"
      [] v = F_HALF -> "0.500000"
      [] v = F_ONE -> "1.000000"
      [] v = F_TWO -> "2.000000"
      [] v = F_THREE -> "3.000000"
      [] OTHER -> "nan"

FloatTokens == {"0.000000", "0.500000", "1.000000", "2.000000", "3.000000"}

\* operator>>(float&): the float a token parses to.
ParseFloat(tok) ==
    CASE tok = "0.000000" -> F_ZERO
      [] tok = "0.500000" -> F_HALF
      [] tok = "1.000000" -> F_ONE
      [] tok = "2.000000" -> F_TWO
      [] tok = "3.000000" -> F_THREE

\* ss >> x >> y >> z >> i succeeds: four leading tokens that are floats.
LineParses(line) ==
    /\ Len(line) >= 4
    /\ \A k \in 1..4 : line[k] \in FloatTokens

\* The while loop of loadXYZI_from_text_file, over the lines still unread.
RECURSIVE loadXYZI_loop(_, _)
loadXYZI_loop(lines, b) ==
    IF lines = <<>> \/ ~LineParses(Head(lines))
    THEN b
    ELSE LET line == Head(lines)
             x == ParseFloat(line[1])
             y == ParseFloat(line[2])
             z == ParseFloat(line[3])
             i == ParseFloat(line[4])
             b1 == insertPointFast_buffers(b, x, y, z)
         IN loadXYZI_loop(Tail(lines), [b1 EXCEPT !.i = Append(b1.i, i)])

EmptyBufs == [x |-> <<>>, y |-> <<>>, z |-> <<>>, i |-> <<>>]

loadXYZI_from_text_file(file) ==
    /\ op' = Call("loadXYZI_from_text_file", 0, <<>>, 0, file)
    /\ modified' = mark_as_modified
    /\ IF ~textFiles[file].exists
       THEN /\ SetBufs(EmptyBufs)
            /\ ret' = Returned("false", <<>>)
       ELSE /\ SetBufs(loadXYZI_loop(textFiles[file].lines, EmptyBufs))
            /\ ret' = Returned("true", <<>>)
    /\ UNCHANGED <<kittiFiles, textFiles, solver>>

saveXYZI_to_text_file(file) ==
    /\ op' = Call("saveXYZI_to_text_file", 0, <<>>, 0, file)
    /\ textFiles' = [textFiles EXCEPT ![file] =
          [exists |-> TRUE,
           lines |-> [k \in 1..Len(m_x) |->
                        <<FormatFloat(m_x[k]), FormatFloat(m_y[k]),
                          FormatFloat(m_z[k]), FormatFloat(m_intensity[k])>>]]]
    /\ ret' = Returned("true", <<>>)
    /\ UNCHANGED <<m_x, m_y, m_z, m_intensity, modified, kittiFiles, solver>>

---------------------------------------------------------------------------
(* Binary (KITTI Velodyne) files: a file is a sequence of bytes.           *)

\* The four bytes of a float in memory on a little-endian host.
FloatToBytes(v) ==
    <<v % 256, (v \div 256) % 256, (v \div 65536) % 256, (v \div 16777216) % 256>>

\* The float whose four bytes in memory are b[1..4].
BytesToFloat(b) ==
    b[1] + 256 * b[2] + 65536 * b[3]
      + 16777216 * (IF b[4] >= 128 THEN b[4] - 256 ELSE b[4])

\* sizeof(float) * 4: the size of one XYZI record
nToRead == 16

\* const float xyzi[4] = {m_x[i], m_y[i], m_z[i], m_intensity[i]}, as bytes.
RecordBytes(b, k) ==
    FloatToBytes(b.x[k]) \o FloatToBytes(b.y[k]) \o FloatToBytes(b.z[k])
      \o FloatToBytes(b.i[k])

\* Everything the loop of saveToKittiVelodyneFile hands to f.Write().
RECURSIVE saveKitti_loop(_, _)
saveKitti_loop(b, k) ==
    IF k > Len(b.x) THEN <<>> ELSE RecordBytes(b, k) \o saveKitti_loop(b, k + 1)

\* A 32-bit count as four little-endian bytes.
LE32(n) == <<n % 256, (n \div 256) % 256, (n \div 65536) % 256, (n \div 16777216) % 256>>

\* The gzip member header: magic 1f 8b, method 8 (deflate), no flags.
GzHeader == <<31, 139, 8, 0, 0, 0, 0, 0, 0, 3>>

\* What CFileGZOutputStream leaves on disk for the bytes written to it: a
\* gzip member (header, one stored deflate block, CRC32 and size trailer).
\* The CRC bytes are left abstract (zero); nothing reads them here.
GzCompress(data) ==
    GzHeader
      \o <<1, Len(data) % 256, Len(data) \div 256,
           255 - (Len(data) % 256), 255 - (Len(data) \div 256)>>
      \o data \o <<0, 0, 0, 0>> \o LE32(Len(data))

IsGz(bytes) == Len(bytes) >= 18 /\ bytes[1] = 31 /\ bytes[2] = 139

\* What CFileGZInputStream delivers for a file: the decompressed payload of
\* a gzip member, and the bytes as they are when the file is not gzip.
GzDecompress(bytes) ==
    IF IsGz(bytes) THEN SubSeq(bytes, 16, Len(bytes) - 8) ELSE bytes

\* mrpt::system::extractFileExtension(): the part after the last dot. A
\* file name is the sequence of its dot-separated parts.
extractFileExtension(filename) ==
    IF Len(filename) > 1 THEN filename[Len(filename)] ELSE ""

\* CStream::Read(buf, Count) on the bytes still unread: how many it reads.
StreamRead(unread, Count) == Min(Count, Len(unread))

\* The bytes the stream opened by loadFromKittiVelodyneFile delivers.
OpenedStream(filename) ==
    IF extractFileExtension(filename) = "gz"
    THEN GzDecompress(kittiFiles[filename].bytes)
    ELSE kittiFiles[filename].bytes

\* loadKitti_loop taking a short read for the end of the file.
RECURSIVE loadKitti_loop_mut(_, _)
loadKitti_loop_mut(unread, b) ==
    LET nRead == StreamRead(unread, nToRead) IN
    IF nRead = nToRead
    THEN LET xyzi == [k \in 1..4 |-> BytesToFloat(SubSeq(unread, 4 * k - 3, 4 * k))]
         IN loadKitti_loop_mut(SubSeq(unread, nRead + 1, Len(unread)),
               [x |-> Append(b.x, xyzi[1]), y |-> Append(b.y, xyzi[2]),
                z |-> Append(b.z, xyzi[3]), i |-> Append(b.i, xyzi[4])])
    ELSE [thrown |-> FALSE, b |-> b]

\* The for (;;) loop of loadFromKittiVelodyneFile: the buffers it leaves,
\* and whether it left by the std::runtime_error of a short record.
RECURSIVE loadKitti_loop(_, _)
loadKitti_loop(unread, b) ==
    LET nRead == StreamRead(unread, nToRead) IN
    IF nRead = 0
    THEN [thrown |-> FALSE, b |-> b]
    ELSE IF nRead = nToRead
    THEN LET xyzi == [k \in 1..4 |-> BytesToFloat(SubSeq(unread, 4 * k - 3, 4 * k))]
         IN loadKitti_loop(SubSeq(unread, nRead + 1, Len(unread)),
               [x |-> Append(b.x, xyzi[1]), y |-> Append(b.y, xyzi[2]),
                z |-> Append(b.z, xyzi[3]), i |-> Append(b.i, xyzi[4])])
    ELSE [thrown |-> TRUE, b |-> b]

loadFromKittiVelodyneFile(filename) ==
    /\ op' = Call("loadFromKittiVelodyneFile", 0, <<>>, 0, filename)
    /\ IF ~kittiFiles[filename].exists
       THEN \* the open fails: thrown and caught before clear()
            /\ ret' = Returned("false", <<>>)
            /\ UNCHANGED <<m_x, m_y, m_z, m_intensity, modified>>
       ELSE LET r == loadKitti_loop(OpenedStream(filename), EmptyBufs) IN
            /\ SetBufs(r.b)
            /\ modified' = mark_as_modified
            /\ ret' = Returned(IF r.thrown THEN "false" ELSE "true", <<>>)
    /\ UNCHANGED <<kittiFiles, textFiles, solver>>

saveToKittiVelodyneFile(filename) ==
    /\ op' = Call("saveToKittiVelodyneFile", 0, <<>>, 0, filename)
    /\ kittiFiles' = [kittiFiles EXCEPT ![filename] =
          [exists |-> TRUE, bytes |-> GzCompress(saveKitti_loop(Bufs, 1))]]
    /\ ret' = Returned("true", <<>>)
    /\ UNCHANGED <<m_x, m_y, m_z, m_intensity, modified, textFiles, solver>>

---------------------------------------------------------------------------
(* The files on disk *)

TextNames ==
    {<<"pts", "txt">>, <<"bad", "txt">>, <<"none", "txt">>, <<"out", "txt">>,
     <<"copy", "txt">>}

KittiNames ==
    {<<"scan", "bin">>, <<"trunc", "bin">>, <<"empty", "bin">>, <<"none", "bin">>,
     <<"scan", "bin", "gz">>, <<"trunc", "bin", "gz">>,
     <<"out", "bin">>, <<"out", "bin", "gz">>}

\* The names the savers are asked to write to.
SaveTextNames == {<<"out", "txt">>, <<"copy", "txt">>}
SaveKittiNames == {<<"out", "bin">>, <<"out", "bin", "gz">>}

NoTextFile == [exists |-> FALSE, lines |-> <<>>]
NoKittiFile == [exists |-> FALSE, bytes |-> <<>>]

FixtureLines ==
    [k \in 1..2 |-> <<FormatFloat(FixtureBufs.x[k]), FormatFloat(FixtureBufs.y[k]),
                      FormatFloat(FixtureBufs.z[k]), FormatFloat(FixtureBufs.i[k])>>]

\* pts.txt: two well-formed lines. bad.txt: a well-formed line, a line whose
\* second field is no number, and a well-formed line after it.
TextFixture ==
    [f \in TextNames |->
        CASE f = <<"pts", "txt">> -> [exists |-> TRUE, lines |-> FixtureLines]
          [] f = <<"bad", "txt">> ->
               [exists |-> TRUE,
                lines |-> <<FixtureLines[1], <<"1.000000", "abc", "3.000000", "0.500000">>,
                            FixtureLines[2]>>]
          [] OTHER -> NoTextFile]

FixtureBytes == saveKitti_loop(FixtureBufs, 1)

\* scan.bin: two whole records (32 bytes). trunc.bin: one record and four
\* bytes of the next (20 bytes). empty.bin: no bytes. The .gz files hold the
\* same bytes gzip-compressed.
KittiFixture ==
    [f \in KittiNames |->
        CASE f = <<"scan", "bin">> -> [exists |-> TRUE, bytes |-> FixtureBytes]
          [] f = <<"trunc", "bin">> -> [exists |-> TRUE, bytes |-> SubSeq(FixtureBytes, 1, 20)]
          [] f = <<"empty", "bin">> -> [exists |-> TRUE, bytes |-> <<>>]
          [] f = <<"scan", "bin", "gz">> ->
               [exists |-> TRUE, bytes |-> GzCompress(FixtureBytes)]
          [] f = <<"trunc", "bin", "gz">> ->
               [exists |-> TRUE, bytes |-> GzCompress(SubSeq(FixtureBytes, 1, 20))]
          [] OTHER -> NoKittiFile]

---------------------------------------------------------------------------
(* The specification of the in-memory operations and the loaders *)

Init ==
    /\ m_x = <<>>
    /\ m_y = <<>>
    /\ m_z = <<>>
    /\ m_intensity = <<>>
    /\ modified = "DIRTY"
    /\ kittiFiles = KittiFixture
    /\ textFiles = TextFixture
    /\ op = Call("CPointsMapXYZI", 0, <<>>, 0, <<>>)
    /\ ret = Returned("ok", <<>>)
    /\ lm = NoCall
    /\ out_info = <<>>
    /\ out_optimal_x = <<>>
    /\ last = <<>>
    /\ bench = NoBench

Next ==
    \/ \E n \in 0..MaxPts : reserve(n)
    \/ \E n \in 0..MaxPts : resize(n)
    \/ \E n \in 0..MaxPts : setSize(n)
    \/ clear
    \/ \E index \in 0..MaxPts, p \in InPoints, R \in InIntensity :
          setPointRGB(index, p[1], p[2], p[3], R)
    \/ \E index \in 0..MaxPts, I \in InIntensity : setPointIntensity(index, I)
    \/ \E p \in InPoints : Len(m_x) < MaxPts /\ insertPointFast(p[1], p[2], p[3])
    \/ \E p \in InPoints, R \in InIntensity :
          Len(m_x) < MaxPts /\ insertPointRGB(p[1], p[2], p[3], R)
    \/ \E index \in 0..MaxPts : getPointRGB(index)
    \/ \E index \in 0..MaxPts : getPointIntensity(index)
    \/ \E in \in Archives, version \in 0..1 : serializeFrom(in, version)
    \/ \E file \in TextNames : loadXYZI_from_text_file(file)
    \/ \E filename \in KittiNames : loadFromKittiVelodyneFile(filename)
    \/ rebuildIndex
    \/ \E anotherMap \in OtherMaps :
          Len(m_x) + Len(anotherMap.x) <= MaxPts /\ addFrom(anotherMap)

Spec == Init /\ [][Next]_vars

---------------------------------------------------------------------------
(* The specifications of the savers and loaders, from clouds of every     *)
(* length up to MaxPts                                                     *)

\* The points of the clouds that are saved: (1, 2, 3; 0.5) and (3, 2, 1; 3e-7).
IOPoints == {<<F_ONE, F_TWO, F_THREE, F_HALF>>, <<F_THREE, F_TWO, F_ONE, F_TINY>>}

IOClouds ==
    UNION {{[x |-> [k \in 1..n |-> pts[k][1]], y |-> [k \in 1..n |-> pts[k][2]],
             z |-> [k \in 1..n |-> pts[k][3]], i |-> [k \in 1..n |-> pts[k][4]]]
              : pts \in [1..n -> IOPoints]} : n \in 0..MaxPts}

InitIO ==
    /\ \E b \in IOClouds :
          /\ m_x = b.x
          /\ m_y = b.y
          /\ m_z = b.z
          /\ m_intensity = b.i
    /\ modified = "DIRTY"
    /\ kittiFiles = KittiFixture
    /\ textFiles = TextFixture
    /\ op = Call("CPointsMapXYZI", 0, <<>>, 0, <<>>)
    /\ ret = Returned("ok", <<>>)
    /\ lm = NoCall
    /\ out_info = <<>>
    /\ out_optimal_x = <<>>
    /\ last = <<>>
    /\ bench = NoBench

NextKitti ==
    \/ \E filename \in SaveKittiNames :
          Len(m_x) <= MaxPts /\ saveToKittiVelodyneFile(filename)
    \/ \E filename \in KittiNames : loadFromKittiVelodyneFile(filename)

SpecKitti == InitIO /\ [][NextKitti]_vars

NextText ==
    \/ \E file \in SaveTextNames : saveXYZI_to_text_file(file)
    \/ \E file \in TextNames : loadXYZI_from_text_file(file)

SpecText == InitIO /\ [][NextText]_vars

---------------------------------------------------------------------------
(* The numbers of the solver (NUMTYPE = double): binary floating point     *)
(* with a mantissa of MantBits bits, rounded to nearest-even after every   *)
(* operation and flushed to zero below 2^MinExp. A number is [m, e] with   *)
(* value m * 2^e; m = 0 (and e = 0) or 2^(MantBits-1) <= |m| < 2^MantBits. *)

\* The mantissa width and the smallest and the largest binary exponent of a
\* nonzero finite number.
MantBits == 12
MinExp == 0 - 126
MaxExp == 127

Abs(n) == IF n < 0 THEN 0 - n ELSE n

Sign(n) == IF n < 0 THEN 0 - 1 ELSE IF n > 0 THEN 1 ELSE 0

\* The number of bits of the natural number n (n < 2^30).
BitLen(n) == CHOOSE k \in 0..30 : (k = 0 \/ 2^(k - 1) <= n) /\ n < 2^k

F0 == [m |-> 0, e |-> 0]

\* The infinity of sign sgn and the NaN. A finite number has e <= MaxExp -
\* MantBits + 1, so neither is one.
FInf(sgn) == [m |-> sgn, e |-> MaxExp + 1]

NaN == [m |-> 0, e |-> MaxExp + 1]

IsInf(a) == a.e = MaxExp + 1 /\ a.m # 0

IsNaN(a) == a.e = MaxExp + 1 /\ a.m = 0

\* The number m * 2^e, m # 0: zero if it lies below the smallest exponent,
\* an infinity if it lies above the largest.
Flush(m, e) ==
    IF e + MantBits - 1 < MinExp THEN F0
    ELSE IF e + MantBits - 1 > MaxExp THEN FInf(Sign(m))
    ELSE [m |-> m, e |-> e]

\* q * 2^e for a rounded mantissa q, which may have reached 2^MantBits.
Carry(sgn, q, e) ==
    IF q = 2^MantBits
    THEN Flush(sgn * 2^(MantBits - 1), e + 1)
    ELSE Flush(sgn * q, e)

\* (q + r / (2 * half)) * 2^e rounded to the nearest mantissa, ties to even.
Nearest(sgn, q, r, half, e) ==
    Carry(sgn, IF r > half \/ (r = half /\ q % 2 = 1) THEN q + 1 ELSE q, e)

\* a * 2^e for a natural number a that has s bits more than a mantissa.
Shifted(sgn, a, s, e) ==
    IF s <= 0
    THEN Flush(sgn * a * 2^(0 - s), e + s)
    ELSE Nearest(sgn, a \div 2^s, a % 2^s, 2^(s - 1), e + s)

\* m * 2^e rounded to MantBits bits, for any integer m.
Round(m, e) ==
    IF m = 0 THEN F0
    ELSE Shifted(Sign(m), Abs(m), BitLen(Abs(m)) - MantBits, e)

\* The integer n as a number.
FInt(n) == Round(n, 0)

FNeg(a) == [m |-> 0 - a.m, e |-> a.e]

FAbs(a) == [m |-> Abs(a.m), e |-> a.e]

\* a + b: the mantissa of the larger exponent is shifted onto the smaller
\* one; an operand more than MantBits + 2 binary places below the other
\* does not change it.
FAdd(a, b) ==
    IF IsNaN(a) \/ IsNaN(b) THEN NaN
    ELSE IF IsInf(a) THEN (IF IsInf(b) /\ b.m # a.m THEN NaN ELSE a)
    ELSE IF IsInf(b) THEN b
    ELSE IF a.m = 0 THEN b
    ELSE IF b.m = 0 THEN a
    ELSE IF a.e - b.e > MantBits + 2 THEN a
    ELSE IF b.e - a.e > MantBits + 2 THEN b
    ELSE IF a.e >= b.e THEN Round(a.m * 2^(a.e - b.e) + b.m, b.e)
    ELSE Round(b.m * 2^(b.e - a.e) + a.m, a.e)

FSub(a, b) == FAdd(a, FNeg(b))

\* a * b; infinity * 0 is a NaN.
FMul(a, b) ==
    IF IsNaN(a) \/ IsNaN(b) THEN NaN
    ELSE IF IsInf(a) \/ IsInf(b)
         THEN (IF a.m = 0 \/ b.m = 0 THEN NaN ELSE FInf(Sign(a.m) * Sign(b.m)))
    ELSE Round(a.m * b.m, a.e + b.e)

\* n / d * 2^e for naturals n, d: the quotient bits and a sticky bit.
Quotient(sgn, n, d, e) ==
    Round(sgn * (2 * (n \div d) + (IF n % d = 0 THEN 0 ELSE 1)), e - 1)

\* a / b for b # 0, from MantBits + 2 quotient bits; infinity / infinity
\* is a NaN.
FQuot(a, b) ==
    IF IsNaN(a) \/ IsNaN(b) THEN NaN
    ELSE IF IsInf(a) THEN (IF IsInf(b) THEN NaN ELSE FInf(Sign(a.m) * Sign(b.m)))
    ELSE IF IsInf(b) THEN F0
    ELSE Quotient(Sign(a.m) * Sign(b.m), Abs(a.m) * 2^(MantBits + 2), Abs(b.m),
             a.e - b.e - MantBits - 2)

\* The decimal fraction n / d as a number.
FRat(n, d) == FQuot(FInt(n), FInt(d))

\* a < b and a <= b; both are false if a or b is a NaN.
FLess(a, b) == ~IsNaN(a) /\ ~IsNaN(b) /\ FSub(a, b).m < 0

FLeq(a, b) == ~IsNaN(a) /\ ~IsNaN(b) /\ (a = b \/ FSub(a, b).m <= 0)

\* std::max(a, b)
FMax(a, b) == IF FLess(a, b) THEN b ELSE a

\* The largest s with s * s <= n, from the bits k, k - 1, ..., 0.
RECURSIVE ISqrtBits(_, _, _)
ISqrtBits(n, s, k) ==
    IF k < 0 THEN s
    ELSE IF (s + 2^k) * (s + 2^k) <= n
         THEN ISqrtBits(n, s + 2^k, k - 1)
         ELSE ISqrtBits(n, s, k - 1)

\* sqrt(n) * 2^e from the integer root s of n, with a sticky bit.
Root(n, s, e) == Round(2 * s + (IF s * s = n THEN 0 ELSE 1), e - 1)

\* sqrt(m * 2^e) for m > 0 and even e, from 8 more bits than the root of m.
RootEven(m, e) == Root(m * 2^16, ISqrtBits(m * 2^16, 0, 14), (e \div 2) - 8)

\* sqrt(a); a NaN for a < 0.
FSqrt(a) ==
    IF IsNaN(a) \/ a.m < 0 THEN NaN
    ELSE IF IsInf(a) THEN a
    ELSE IF a.m = 0 THEN F0
    ELSE IF a.e % 2 # 0 THEN RootEven(2 * a.m, a.e - 1)
    ELSE RootEven(a.m, a.e)

\* a / b as IEEE-754 defines it: a quotient, or for b = 0 an infinity
\* (a # 0) or a NaN (a = 0).
FDiv(a, b) ==
    IF IsNaN(a) \/ IsNaN(b) \/ (IsInf(a) /\ IsInf(b)) THEN [kind |-> "nan", val |-> F0]
    ELSE IF b.m # 0 THEN [kind |-> "num", val |-> FQuot(a, b)]
    ELSE IF a.m > 0 THEN [kind |-> "inf", val |-> F0]
    ELSE IF a.m < 0 THEN [kind |-> "-inf", val |-> F0]
    ELSE [kind |-> "nan", val |-> F0]

---------------------------------------------------------------------------
(* Vectors and matrices: a vector is a sequence of numbers, a matrix a     *)
(* sequence of rows.                                                       *)

FOne == FInt(1)

FTwo == FInt(2)

\* The sum of the numbers s[1], ..., s[n], added in order.
RECURSIVE FSum(_, _)
FSum(s, n) == IF n = 0 THEN F0 ELSE FAdd(FSum(s, n - 1), s[n])

Dot(a, b) == FSum([k \in 1..Len(a) |-> FMul(a[k], b[k])], Len(a))

\* mrpt::math::norm: the Euclidean norm.
norm(v) == FSqrt(Dot(v, v))

\* pow(a, 2)
Sqr(a) == FMul(a, a)

\* The largest of s[1], ..., s[n].
RECURSIVE Largest(_, _)
Largest(s, n) == IF n = 1 THEN s[1] ELSE FMax(Largest(s, n - 1), s[n])

\* mrpt::math::norm_inf: the largest absolute value of an entry.
norm_inf(v) ==
    IF Len(v) = 0 THEN F0 ELSE Largest([k \in 1..Len(v) |-> FAbs(v[k])], Len(v))

\* vector + vector, vector - vector, vector * scalar
VAdd(a, b) == [k \in 1..Len(a) |-> FAdd(a[k], b[k])]

VSub(a, b) == [k \in 1..Len(a) |-> FSub(a[k], b[k])]

VScale(a, c) == [k \in 1..Len(a) |-> FMul(a[k], c)]

Rows(A) == Len(A)

Cols(A) == IF Len(A) = 0 THEN 0 ELSE Len(A[1])

\* out.matProductOf_AB(A, B): A * B, for A.cols = B.rows; otherwise the
\* call fails with a dimension mismatch.
matProductOf_AB(A, B) ==
    IF Cols(A) # Rows(B)
    THEN [ok |-> FALSE, out |-> <<>>]
    ELSE [ok |-> TRUE,
          out |-> [i \in 1..Rows(A) |-> [j \in 1..Cols(B) |->
                     FSum([k \in 1..Cols(A) |-> FMul(A[i][k], B[k][j])], Cols(A))]]]

\* out.matProductOf_AtA(A): transpose(A) * A.
matProductOf_AtA(A) ==
    [i \in 1..Cols(A) |-> [j \in 1..Cols(A) |->
        FSum([k \in 1..Rows(A) |-> FMul(A[k][i], A[k][j])], Rows(A))]]

\* out.matProductOf_Atb(A, b): transpose(A) * b.
matProductOf_Atb(A, b) ==
    [i \in 1..Cols(A) |-> FSum([k \in 1..Rows(A) |-> FMul(A[k][i], b[k])], Rows(A))]

\* out.matProductOf_Ab(A, b): A * b.
matProductOf_Ab(A, b) ==
    [i \in 1..Rows(A) |-> FSum([k \in 1..Cols(A) |-> FMul(A[i][k], b[k])], Cols(A))]

\* H.maximumDiagonal(): the largest diagonal entry.
maximumDiagonal(H) ==
    IF Rows(H) = 0 THEN F0 ELSE Largest([k \in 1..Rows(H) |-> H[k][k]], Rows(H))

\* The outcome of inverse_LLt: the inverse, or the failure to factor.
NotPositiveDefinite == [ok |-> FALSE, inv |-> <<>>]

\* inverse(L * transpose(L)) = transpose(inverse(L)) * inverse(L), from the
\* entries i11, i21, i22 of inverse(L).
InverseFrom(i11, i21, i22) ==
    [ok |-> TRUE,
     inv |-> << <<FAdd(Sqr(i11), Sqr(i21)), FMul(i21, i22)>>,
                <<FMul(i21, i22), Sqr(i22)>> >>]

\* inverse(L) for the lower-triangular L = ((l11, 0), (l21, l22)).
InverseOfL(l21, i11, i22) == InverseFrom(i11, FNeg(FMul(FMul(l21, i11), i22)), i22)

\* The second pivot of the Cholesky factor: l22 = sqrt(d), d > 0.
Pivot2(l11, l21, d) ==
    IF d.m <= 0 \/ FSqrt(d).m = 0
    THEN NotPositiveDefinite
    ELSE InverseOfL(l21, FQuot(FOne, l11), FQuot(FOne, FSqrt(d)))

Column1(A, l11, l21) == Pivot2(l11, l21, FSub(A[2][2], Sqr(l21)))

\* The first pivot of the Cholesky factor: l11 = sqrt(a11), a11 > 0.
Pivot1(A, l11) ==
    IF l11.m = 0 THEN NotPositiveDefinite
    ELSE IF Rows(A) = 1
         THEN [ok |-> TRUE, inv |-> << <<Sqr(FQuot(FOne, l11))>> >>]
         ELSE Column1(A, l11, FQuot(A[2][1], l11))

\* A.inverse_LLt() for a 1x1 or 2x2 matrix: the Cholesky factor L of A
\* (A = L * transpose(L)), which exists only if A is positive-definite, and
\* from it the inverse of A.
inverse_LLt(A) ==
    IF A[1][1].m <= 0 THEN NotPositiveDefinite ELSE Pivot1(A, FSqrt(A[1][1]))

\* M(row, c) = vals[c] for every c, rows and columns counted from 0; a row
\* outside M is not written.
SetRow(M, row, vals) ==
    [r \in 1..Len(M) |-> [c \in 1..Len(M[r]) |->
        IF r = row + 1 /\ c <= Len(vals) THEN vals[c] ELSE M[r][c]]]

\* M.setSize(rows, cols): the cells the old matrix had keep their values,
\* every other cell holds the indeterminate value u.
MatSetSize(M, rows, cols, u) ==
    [r \in 1..rows |-> [c \in 1..cols |->
        IF r <= Len(M) /\ c <= Len(M[r]) THEN M[r][c] ELSE u]]

---------------------------------------------------------------------------
(* CLevenbergMarquardtTempl::execute                                       *)

\* The residual functors (TFunctorEval) the callers pass: f(x) for
\*   x_minus_5: <<x - 5>>            constant: <<1>>
\*   cubic:     <<x^3 - 2x + 2>>     tiny:     <<2^-40 * x>>
\*   flat:      <<2^-64 * x>>
\*   line2:     <<x1 + 2*x2 - 4, x1 - x2 - 1>>
\*   sum2:      <<x1 + x2 - 1>>
functor(name, x) ==
    CASE name = "x_minus_5" -> <<FSub(x[1], FInt(5))>>
      [] name = "constant" -> <<FOne>>
      [] name = "cubic" ->
           <<FAdd(FSub(FMul(Sqr(x[1]), x[1]), FMul(FTwo, x[1])), FTwo)>>
      [] name = "tiny" -> <<FMul(Round(1, 0 - 40), x[1])>>
      [] name = "flat" -> <<FMul(Round(1, 0 - 64), x[1])>>
      [] name = "line2" ->
           <<FSub(FAdd(x[1], FMul(FTwo, x[2])), FInt(4)),
             FSub(FSub(x[1], x[2]), FOne)>>
      [] name = "sum2" -> <<FSub(FAdd(x[1], x[2]), FOne)>>

\* x with its entry j moved by d.
Moved(x, j, d) == [k \in 1..Len(x) |-> IF k = j THEN FAdd(x[k], d) ELSE x[k]]

\* mrpt::math::estimateJacobian: central finite differences, column j from
\* (f(x + increments[j] e_j) - f(x - increments[j] e_j)) * 0.5 / increments[j].
estimateJacobian(x, name, increments) ==
    [i \in 1..Len(functor(name, x)) |-> [j \in 1..Len(x) |->
        FMul(FQuot(FRat(1, 2), increments[j]),
             FSub(functor(name, Moved(x, j, increments[j]))[i],
                  functor(name, Moved(x, j, FNeg(increments[j])))[i]))]]

\* The increment functors (TFunctorIncrement) the callers pass: "nullptr"
\* for none, "halved" for x_new = x + h / 2.
x_increment_adder(name, x, h_lm) == VAdd(x, VScale(h_lm, FRat(1, 2)))

\* What the caller passes to execute.
Inputs(name, x0, increments, maxIter, tau, e1, e2, returnPath, adder) ==
    [functor |-> name, x0 |-> x0, increments |-> increments, maxIter |-> maxIter,
     tau |-> tau, e1 |-> e1, e2 |-> e2, returnPath |-> returnPath,
     x_increment_adder |-> adder]

\* The local variables of a call of execute that has not started, with
\* the passes' outcome (branch), the path rows written (rows_written) and
\* the number of calls functor(xnew, userParam, f_xnew) of line 200
\* (candidates), the number of rejected steps since the start or the last
\* accepted step (rejections) and the lambda held then (lambda_run).
Frame(in) ==
    [pc |-> "call", in |-> in, J |-> <<>>, f_x |-> <<>>, g |-> <<>>,
     found |-> FALSE, lambda |-> F0, iter |-> 0, v |-> F0, F_x |-> F0,
     h_lm |-> <<>>, xnew |-> <<>>, f_xnew |-> <<>>,
     l |-> [kind |-> "num", val |-> F0], branch |-> "none",
     rows_written |-> {}, candidates |-> 0, rejections |-> 0,
     lambda_run |-> F0]

\* TResultInfo as default-constructed.
TResultInfo ==
    [final_sqr_err |-> F0, initial_sqr_err |-> F0, iterations_executed |-> 0,
     last_err_vector |-> <<>>, path |-> <<>>, H |-> <<>>]

\* The locals, x and out_info as a step of execute leaves them.
Becomes(locals, x, info) ==
    /\ lm' = locals
    /\ out_optimal_x' = x
    /\ out_info' = info

\* The variables execute does not touch.
others == <<last, bench, m_x, m_y, m_z, m_intensity, modified, kittiFiles,
            textFiles, op, ret>>

\* Lines 154-163: the path is sized to maxIter rows and x is written to its
\* row 0. In a build that checks matrix indices, writing row 0 of a path of
\* no rows throws; in one that does not, the write lands outside the matrix.
init_path(locals, x, info, checked, u) ==
    IF ~locals.in.returnPath
    THEN Becomes([locals EXCEPT !.pc = "while"], x, [info EXCEPT !.path = <<>>])
    ELSE IF locals.in.maxIter = 0 /\ Len(x) > 0 /\ checked
    THEN Becomes([locals EXCEPT !.pc = "thrown"], x, [info EXCEPT !.path = <<>>])
    ELSE Becomes([locals EXCEPT !.pc = "while",
                                !.rows_written = IF Len(x) > 0 THEN {0} ELSE {}],
                 x,
                 [info EXCEPT
                    !.path = SetRow(MatSetSize(@, locals.in.maxIter, Len(x) + 1, u),
                                    0, x)])

\* Lines 133-152: f_x, g, found, lambda, iter, v, F_x and initial_sqr_err.
init_gradient(in, x, J, H, f_x, g, checked, u) ==
    init_path([lm EXCEPT !.J = J, !.f_x = f_x, !.g = g,
                         !.found = FLeq(norm_inf(g), in.e1),
                         !.lambda = FMul(in.tau, maximumDiagonal(H)),
                         !.lambda_run = FMul(in.tau, maximumDiagonal(H)),
                         !.iter = 0, !.v = FTwo, !.F_x = Sqr(norm(f_x))],
              x,
              [out_info EXCEPT !.H = H, !.initial_sqr_err = Sqr(norm(f_x))],
              checked, u)

\* Lines 127-135: the Jacobian J, H = J^t J and g = J^t f_x.
init_jacobian(in, x, J, f_x, checked, u) ==
    init_gradient(in, x, J, matProductOf_AtA(J), f_x, matProductOf_Atb(J, f_x),
                  checked, u)

\* execute with x = x0 (line 120) ahead of the check of line 118.
execute_begin_mut(checked, u) ==
    /\ lm.pc = "call"
    /\ IF Len(lm.in.increments) # Len(lm.in.x0)
       THEN Becomes([lm EXCEPT !.pc = "thrown"], lm.in.x0, out_info)
       ELSE init_jacobian(lm.in, lm.in.x0,
                          estimateJacobian(lm.in.x0, lm.in.functor, lm.in.increments),
                          functor(lm.in.functor, lm.in.x0), checked, u)
    /\ UNCHANGED others

\* Lines 111-163: the check of the arguments and the initial J, H, f_x, g,
\* lambda, v, F_x and path row 0. u is the value in the cells setSize creates.
execute_begin(checked, u) ==
    /\ lm.pc = "call"
    /\ IF Len(lm.in.increments) # Len(lm.in.x0)
       THEN Becomes([lm EXCEPT !.pc = "thrown"], out_optimal_x, out_info)
       ELSE init_jacobian(lm.in, lm.in.x0,
                          estimateJacobian(lm.in.x0, lm.in.functor, lm.in.increments),
                          functor(lm.in.functor, lm.in.x0), checked, u)
    /\ UNCHANGED others

\* Line 165: while (!found && ++iter < maxIter).
execute_while ==
    /\ lm.pc = "while"
    /\ lm' = IF lm.found
             THEN [lm EXCEPT !.pc = "exit"]
             ELSE [lm EXCEPT !.iter = lm.iter + 1,
                             !.pc = IF lm.iter + 1 < lm.in.maxIter
                                    THEN "body" ELSE "exit"]
    /\ UNCHANGED <<out_info, out_optimal_x>>
    /\ UNCHANGED others

\* Lines 239-244: row iter of the path records x and F_x.
record_path(locals, x, info) ==
    IF ~locals.in.returnPath
    THEN Becomes(locals, x, info)
    ELSE Becomes([locals EXCEPT !.rows_written = @ \cup {locals.iter}], x,
                 [info EXCEPT !.path = SetRow(@, locals.iter, Append(x, locals.F_x))])

\* The factor of line 227 with the sign of the cube turned:
\* max(0.33, 1 + pow(2 * l - 1, 3)).
Shrink_mut(l) ==
    IF l.kind = "inf"
    THEN FInf(1)
    ELSE FMax(FRat(33, 100),
              FAdd(FOne, FMul(Sqr(FSub(FMul(FTwo, l.val), FOne)),
                              FSub(FMul(FTwo, l.val), FOne))))

\* max(0.33, 1 - pow(2 * l - 1, 3)), for l > 0.
Shrink(l) ==
    IF l.kind = "inf"
    THEN FRat(33, 100)
    ELSE FMax(FRat(33, 100),
              FSub(FOne, FMul(Sqr(FSub(FMul(FTwo, l.val), FOne)),
                              FSub(FMul(FTwo, l.val), FOne))))

\* The accepted step with line 218 storing J itself as out_info.H.
accept_step_mut(locals, info, xnew, f_xnew, F_xnew, J, g) ==
    record_path([locals EXCEPT
                   !.branch = "accepted", !.J = J, !.f_x = f_xnew, !.F_x = F_xnew,
                   !.g = g, !.found = FLeq(norm_inf(g), locals.in.e1),
                   !.lambda = FMul(@, Shrink(locals.l)), !.v = FTwo,
                   !.lambda_run = FMul(locals.lambda, Shrink(locals.l)),
                   !.rejections = 0],
                xnew,
                [info EXCEPT !.H = J])

\* Lines 210-231: the step is accepted; J, H, g, found are recomputed at
\* the new x, lambda shrinks, v is reset.
accept_step(locals, info, xnew, f_xnew, F_xnew, J, g) ==
    record_path([locals EXCEPT
                   !.branch = "accepted", !.J = J, !.f_x = f_xnew, !.F_x = F_xnew,
                   !.g = g, !.found = FLeq(norm_inf(g), locals.in.e1),
                   !.lambda = FMul(@, Shrink(locals.l)), !.v = FTwo,
                   !.lambda_run = FMul(locals.lambda, Shrink(locals.l)),
                   !.rejections = 0],
                xnew,
                [info EXCEPT !.H = matProductOf_AtA(J)])

\* The rejected step with lambda doubled instead of multiplied by v.
reject_step_mut(locals, x, info) ==
    record_path([locals EXCEPT !.branch = "rejected",
                               !.lambda = FMul(@, FTwo),
                               !.v = FMul(@, FTwo),
                               !.rejections = @ + 1],
                x, info)

\* Lines 232-237: the step is rejected; lambda grows by v and v doubles.
reject_step(locals, x, info) ==
    record_path([locals EXCEPT !.branch = "rejected",
                               !.lambda = FMul(@, locals.v),
                               !.v = FMul(@, FTwo),
                               !.rejections = @ + 1],
                x, info)

\* The test of line 210 with its sign turned: if (l < 0).
gain_positive_mut(l) == l.kind = "-inf" \/ (l.kind = "num" /\ l.val.m < 0)

\* Line 210: if (l > 0).
gain_positive(l) == l.kind = "inf" \/ (l.kind = "num" /\ l.val.m > 0)

\* The loop body taking every candidate, whatever the gain ratio.
judge_step_mut(locals, x, info, xnew, f_xnew, F_xnew, J) ==
    accept_step(locals, info, xnew, f_xnew, F_xnew, J, matProductOf_Atb(J, f_xnew))

\* Lines 210-237 for the gain ratio l.
judge_step(locals, x, info, xnew, f_xnew, F_xnew, J) ==
    IF gain_positive(locals.l)
    THEN accept_step(locals, info, xnew, f_xnew, F_xnew, J,
                     matProductOf_Atb(J, f_xnew))
    ELSE reject_step(locals, x, info)

\* Lines 203-208: denom = (h_lm * lambda - g) . h_lm, l = (F_x - F_xnew) / denom.
gain_ratio(locals, x, info, h_lm, xnew, f_xnew, F_xnew) ==
    judge_step([locals EXCEPT
                  !.pc = "while", !.h_lm = h_lm, !.xnew = xnew,
                  !.f_xnew = f_xnew, !.candidates = @ + 1,
                  !.l = FDiv(FSub(locals.F_x, F_xnew),
                             Dot(VSub(VScale(h_lm, locals.lambda), locals.g), h_lm))],
               x, info, xnew, f_xnew, F_xnew,
               estimateJacobian(xnew, locals.in.functor, locals.in.increments))

\* Lines 193-201: x_new from x and h_lm, and the residuals there.
try_step(locals, x, info, h_lm, xnew) ==
    gain_ratio(locals, x, info, h_lm, xnew, functor(locals.in.functor, xnew),
               Sqr(norm(functor(locals.in.functor, xnew))))

\* The candidate taken as x + h_lm whether or not an increment functor is
\* passed.
check_step_mut(locals, x, info, h_lm) ==
    IF FLess(norm(h_lm), FMul(locals.in.e2, FAdd(norm(x), locals.in.e2)))
    THEN Becomes([locals EXCEPT !.pc = "while", !.h_lm = h_lm, !.found = TRUE,
                                !.branch = "small_step"], x, info)
    ELSE try_step(locals, x, info, h_lm, VAdd(x, h_lm))

\* The loop body without the test of line 184: every step is tried.
check_step_always(locals, x, info, h_lm) ==
    try_step(locals, x, info, h_lm,
             IF locals.in.x_increment_adder = "nullptr"
             THEN VAdd(x, h_lm)
             ELSE x_increment_adder(locals.in.x_increment_adder, x, h_lm))

\* Lines 177-201: the step is too small to go on, or it is tried.
check_step(locals, x, info, h_lm) ==
    IF FLess(norm(h_lm), FMul(locals.in.e2, FAdd(norm(x), locals.in.e2)))
    THEN Becomes([locals EXCEPT !.pc = "while", !.h_lm = h_lm, !.found = TRUE,
                                !.branch = "small_step"], x, info)
    ELSE try_step(locals, x, info, h_lm,
                  IF locals.in.x_increment_adder = "nullptr"
                  THEN VAdd(x, h_lm)
                  ELSE x_increment_adder(locals.in.x_increment_adder, x, h_lm))

\* execute with the failure of inverse_LLt caught and the step counted as a
\* rejected one.
solve_step_mut(locals, x, info, AUX) ==
    IF ~AUX.ok
    THEN reject_step([locals EXCEPT !.pc = "while"], x, info)
    ELSE check_step(locals, x, info,
                    VScale(matProductOf_Ab(AUX.inv, locals.g), FNeg(FOne)))

\* Lines 172-175: AUX = H.inverse_LLt(), which throws if H is not
\* positive-definite; h_lm = -(AUX * g).
solve_step(locals, x, info, AUX) ==
    IF ~AUX.ok
    THEN Becomes([locals EXCEPT !.pc = "thrown", !.branch = "failed"], x, info)
    ELSE check_step(locals, x, info,
                    VScale(matProductOf_Ab(AUX.inv, locals.g), FNeg(FOne)))

\* Lines 167-170: H = out_info.H with lambda added to its diagonal.
damped(H, lambda) ==
    [i \in 1..Len(H) |-> [j \in 1..Len(H) |->
        IF i = j THEN FAdd(H[i][j], lambda) ELSE H[i][j]]]

\* Lines 167-245: one pass of the loop body.
execute_body ==
    /\ lm.pc = "body"
    /\ solve_step(lm, out_optimal_x, out_info,
                  inverse_LLt(damped(out_info.H, lm.lambda)))
    /\ UNCHANGED others

\* The results stored with the residuals of the last candidate, f_xnew, as
\* last_err_vector.
execute_end_mut(u) ==
    /\ lm.pc = "exit"
    /\ Becomes([lm EXCEPT !.pc = "returned"], out_optimal_x,
               [out_info EXCEPT
                  !.final_sqr_err = lm.F_x,
                  !.iterations_executed = lm.iter,
                  !.last_err_vector = lm.f_xnew,
                  !.path = IF lm.in.returnPath
                           THEN MatSetSize(@, lm.iter, Len(lm.in.x0) + 1, u)
                           ELSE @])
    /\ UNCHANGED others

\* Lines 248-252: the results are stored and execute returns.
execute_end(u) ==
    /\ lm.pc = "exit"
    /\ Becomes([lm EXCEPT !.pc = "returned"], out_optimal_x,
               [out_info EXCEPT
                  !.final_sqr_err = lm.F_x,
                  !.iterations_executed = lm.iter,
                  !.last_err_vector = lm.f_x,
                  !.path = IF lm.in.returnPath
                           THEN MatSetSize(@, lm.iter, Len(lm.in.x0) + 1, u)
                           ELSE @])
    /\ UNCHANGED others

---------------------------------------------------------------------------
(* The specifications of the solver *)

\* The default arguments of execute: maxIter = 200, tau = 1e-3,
\* e1 = e2 = 1e-8.
DefaultMaxIter == 200
DefaultTau == FRat(1, 1000)
DefaultE == FRat(1, 100000000)

\* A damping seed below 0, which execute takes as it takes any other.
NegativeTau == FNeg(FRat(3, 4))

\* The largest iteration cap, besides the default, that callers pass.
MaxIterBound == 3

\* A value no computation of the solver produces, for memory it has not
\* written.
Stale == Round(1365, 0)

\* The values a cell that setSize creates may hold.
Uninit == {F0, Stale}

\* The residual functors with the starting points and increments they are
\* called with. The last one passes two increments for one parameter.
Problems ==
    {<<"x_minus_5", <<F0>>, <<FRat(1, 8)>>>>,
     <<"x_minus_5", <<FInt(5)>>, <<FRat(1, 8)>>>>,
     <<"constant", <<F0>>, <<FRat(1, 8)>>>>,
     <<"cubic", <<F0>>, <<FRat(1, 8)>>>>,
     <<"tiny", <<Round(1, 0 - 40)>>, <<Round(1, 0 - 43)>>>>,
     <<"flat", <<FInt(256)>>, <<FRat(1, 8)>>>>,
     <<"line2", <<F0, F0>>, <<FRat(1, 8), FRat(1, 8)>>>>,
     <<"sum2", <<F0, F0>>, <<FRat(1, 8), FRat(1, 8)>>>>,
     <<"x_minus_5", <<F0>>, <<FRat(1, 8), FRat(1, 8)>>>>}

\* The calls made of execute: every problem with the default arguments,
\* and with the default iteration cap and the tolerances 0; and with every
\* iteration cap up to MaxIterBound, the damping seeds 1e-3 and 1, the
\* tolerances 1e-8 and 0, with and without the path and the increment
\* functor; and every problem with a negative damping seed.
Calls ==
    {Inputs(p[1], p[2], p[3], DefaultMaxIter, DefaultTau, DefaultE, DefaultE,
            TRUE, "nullptr") : p \in Problems}
    \cup {Inputs(p[1], p[2], p[3], DefaultMaxIter, DefaultTau, F0, F0,
                 FALSE, "nullptr") : p \in Problems}
    \cup {Inputs(p[1], p[2], p[3], maxIter, tau, e, e, returnPath, adder) :
             p \in Problems, maxIter \in 0..MaxIterBound,
             tau \in {DefaultTau, FOne}, e \in {DefaultE, F0},
             returnPath \in BOOLEAN, adder \in {"nullptr", "halved"}}
    \cup {Inputs(p[1], p[2], p[3], MaxIterBound, NegativeTau, DefaultE, DefaultE,
                 TRUE, "nullptr") : p \in Problems}

\* What out_info holds before a call: a default-constructed TResultInfo or
\* the results of some earlier use.
OutInfoBefore ==
    {TResultInfo,
     [final_sqr_err |-> Stale, initial_sqr_err |-> Stale, iterations_executed |-> 7,
      last_err_vector |-> <<Stale>>, path |-> <<<<Stale, Stale>>>>,
      H |-> <<<<Stale>>>>]}

InitLM ==
    /\ m_x = <<>>
    /\ m_y = <<>>
    /\ m_z = <<>>
    /\ m_intensity = <<>>
    /\ modified = "DIRTY"
    /\ kittiFiles = KittiFixture
    /\ textFiles = TextFixture
    /\ op = Call("CPointsMapXYZI", 0, <<>>, 0, <<>>)
    /\ ret = Returned("ok", <<>>)
    /\ lm \in {Frame(in) : in \in Calls}
    /\ out_info \in OutInfoBefore
    /\ out_optimal_x \in {<<>>, <<Stale>>}
    /\ last = <<>>
    /\ bench = NoBench

NextLM ==
    \/ \E checked \in BOOLEAN, u \in Uninit : execute_begin(checked, u)
    \/ execute_while
    \/ execute_body
    \/ \E u \in Uninit : execute_end(u)

SpecLM == InitLM /\ [][NextLM]_vars

\* The most calls of execute a caller makes on one solver object with one
\* out_info and out_optimal_x.
MaxCalls == 3

\* The calls a caller repeats: with and without the path, in one and in two
\* parameters.
RepeatCalls ==
    {Inputs(p[1], p[2], p[3], 2, DefaultTau, DefaultE, DefaultE, returnPath,
            "nullptr") :
        p \in {<<"x_minus_5", <<F0>>, <<FRat(1, 8)>>>>,
               <<"line2", <<F0, F0>>, <<FRat(1, 8), FRat(1, 8)>>>>},
        returnPath \in BOOLEAN}

\* What the caller keeps of a call that returned: its arguments and results.
Kept(calls, in, x, info) ==
    [calls |-> calls, kept |-> TRUE, in |-> in, x |-> x, info |-> info]

\* The caller, after a call has returned, calls execute again with the same
\* out_info and out_optimal_x; it keeps the results of the call that
\* returned, or those it kept before.
call_again(in) ==
    /\ lm.pc = "returned"
    /\ last.calls < MaxCalls
    /\ lm' = Frame(in)
    /\ last' \in {[last EXCEPT !.calls = @ + 1],
                  Kept(last.calls + 1, lm.in, out_optimal_x, out_info)}
    /\ UNCHANGED <<out_info, out_optimal_x, bench>>
    /\ UNCHANGED <<m_x, m_y, m_z, m_intensity, modified, kittiFiles, textFiles,
                   op, ret>>

InitRepeat ==
    /\ m_x = <<>>
    /\ m_y = <<>>
    /\ m_z = <<>>
    /\ m_intensity = <<>>
    /\ modified = "DIRTY"
    /\ kittiFiles = KittiFixture
    /\ textFiles = TextFixture
    /\ op = Call("CPointsMapXYZI", 0, <<>>, 0, <<>>)
    /\ ret = Returned("ok", <<>>)
    /\ lm \in {Frame(in) : in \in RepeatCalls}
    /\ out_info \in OutInfoBefore
    /\ out_optimal_x \in {<<>>, <<Stale>>}
    /\ last = [calls |-> 1, kept |-> FALSE, in |-> lm.in, x |-> <<>>,
               info |-> TResultInfo]
    /\ bench = NoBench

NextRepeat ==
    \/ \E checked \in BOOLEAN, u \in Uninit : execute_begin(checked, u)
    \/ execute_while
    \/ execute_body
    \/ \E u \in Uninit : execute_end(u)
    \/ \E in \in RepeatCalls : call_again(in)

SpecRepeat == InitRepeat /\ [][NextRepeat]_vars

---------------------------------------------------------------------------
(* The matrix benchmarks: matrix_test_mult_dyn and matrix_test_mult_fix    *)

\* The largest number of rows or columns of a matrix of the benchmarks.
MaxDim == 2

\* The passes of the loop for (i = 0; i < N; i++).
MultReps == 2

\* The numbers drawGaussian1DMatrix draws.
Pool == <<FInt(0 - 1), F0, FInt(2), FRat(1, 3)>>

\* A rows x cols matrix of drawn numbers, one for every seed.
Drawn(rows, cols, seed) ==
    [i \in 1..rows |-> [j \in 1..cols |->
        Pool[((i + 2 * j + seed) % Len(Pool)) + 1]]]

\* CMatrixDynamic<T> C(rows, cols) and CMatrixFixed<T, rows, cols> C.
Constructed(rows, cols) == [i \in 1..rows |-> [j \in 1..cols |-> F0]]

\* A, B and C as a benchmark declares and fills them: A is DIM1 x DIM2 and
\* C is DIM1 x DIM3. B is DIM2 x DIM3 in the benchmarks; a caller of the
\* dynamic matrices can also pass a B of DIMB # DIM2 rows, which for the
\* fixed-size ones does not compile.
Benchmark(fn, DIM1, DIM2, DIMB, DIM3, seed) ==
    [pc |-> "loop", fn |-> fn, i |-> 0,
     A |-> Drawn(DIM1, DIM2, seed),
     B |-> Drawn(DIMB, DIM3, seed + 1),
     C |-> Constructed(DIM1, DIM3)]

Benchmarks ==
    {Benchmark("matrix_test_mult_dyn", DIM1, DIM2, DIMB, DIM3, seed) :
        DIM1 \in 1..MaxDim, DIM2 \in 1..MaxDim, DIMB \in 1..MaxDim,
        DIM3 \in 1..MaxDim, seed \in 0..3}
    \cup {Benchmark("matrix_test_mult_fix", DIM1, DIM2, DIM2, DIM3, seed) :
        DIM1 \in 1..MaxDim, DIM2 \in 1..MaxDim, DIM3 \in 1..MaxDim,
        seed \in 0..3}

\* C.matProductOf_AB(A, B) as a pass of the loop leaves the benchmark.
Multiplied(b, product) ==
    IF product.ok
    THEN [b EXCEPT !.C = product.out, !.i = @ + 1]
    ELSE [b EXCEPT !.pc = "thrown"]

\* matrix_test_mult_dyn with a mismatch of dimensions gone unnoticed: C is
\* whatever the kernel made of it.
matrix_test_mult_dyn_mut ==
    /\ bench.pc = "loop"
    /\ bench.fn = "matrix_test_mult_dyn"
    /\ bench.i < MultReps
    /\ bench' = [bench EXCEPT !.C = matProductOf_AB(bench.A, bench.B).out,
                              !.i = @ + 1]
    /\ UNCHANGED <<m_x, m_y, m_z, m_intensity, modified, kittiFiles, textFiles,
                   op, ret, lm, out_info, out_optimal_x, last>>

\* matrix_test_mult_dyn: one pass of its loop.
matrix_test_mult_dyn ==
    /\ bench.pc = "loop"
    /\ bench.fn = "matrix_test_mult_dyn"
    /\ bench.i < MultReps
    /\ bench' = Multiplied(bench, matProductOf_AB(bench.A, bench.B))
    /\ UNCHANGED <<m_x, m_y, m_z, m_intensity, modified, kittiFiles, textFiles,
                   op, ret, lm, out_info, out_optimal_x, last>>

\* matrix_test_mult_fix: one pass of its loop.
matrix_test_mult_fix ==
    /\ bench.pc = "loop"
    /\ bench.fn = "matrix_test_mult_fix"
    /\ bench.i < MultReps
    /\ bench' = Multiplied(bench, matProductOf_AB(bench.A, bench.B))
    /\ UNCHANGED <<m_x, m_y, m_z, m_intensity, modified, kittiFiles, textFiles,
                   op, ret, lm, out_info, out_optimal_x, last>>

\* The loop is over and the benchmark returns.
matrix_test_return ==
    /\ bench.pc = "loop"
    /\ bench.i = MultReps
    /\ bench' = [bench EXCEPT !.pc = "returned"]
    /\ UNCHANGED <<m_x, m_y, m_z, m_intensity, modified, kittiFiles, textFiles,
                   op, ret, lm, out_info, out_optimal_x, last>>

InitMat ==
    /\ m_x = <<>>
    /\ m_y = <<>>
    /\ m_z = <<>>
    /\ m_intensity = <<>>
    /\ modified = "DIRTY"
    /\ kittiFiles = KittiFixture
    /\ textFiles = TextFixture
    /\ op = Call("CPointsMapXYZI", 0, <<>>, 0, <<>>)
    /\ ret = Returned("ok", <<>>)
    /\ lm = NoCall
    /\ out_info = <<>>
    /\ out_optimal_x = <<>>
    /\ last = <<>>
    /\ bench \in Benchmarks

NextMat ==
    \/ matrix_test_mult_dyn
    \/ matrix_test_mult_fix
    \/ matrix_test_return

SpecMat == InitMat /\ [][NextMat]_vars

---------------------------------------------------------------------------
(* Claims *)

Lengths == <<Len(m_x), Len(m_y), Len(m_z), Len(m_intensity)>>

\* C1: whenever control is back at the caller, m_x, m_y, m_z and m_intensity
\* all have the same length, the point count N.
C1_EqualLengths ==
    /\ Len(m_y) = Len(m_x)
    /\ Len(m_z) = Len(m_x)
    /\ Len(m_intensity) = Len(m_x)

\* The file saveToKittiVelodyneFile is specified to leave for the cloud c.
SavedKittiFile(c) == [exists |-> TRUE, bytes |-> GzCompress(saveKitti_loop(c, 1))]

\* C2: saveToKittiVelodyneFile(name) returns true, and loadFromKittiVelodyneFile
\* of a file that a save of the cloud c wrote returns true and leaves exactly
\* the points of c, in order, for names with and without the "gz" extension.
C2_KittiRoundTrip ==
    /\ op.name = "saveToKittiVelodyneFile" => ret.status = "true"
    /\ \A c \in IOClouds :
          (/\ op.name = "loadFromKittiVelodyneFile"
           /\ op.file \in SaveKittiNames
           /\ kittiFiles[op.file] = SavedKittiFile(c))
          => (ret.status = "true" /\ Bufs = c)

\* C3: loadFromKittiVelodyneFile on a stream of L bytes returns true with
\* exactly L/16 points when 16 divides L (L = 0 included) and returns false,
\* with no exception escaping, when it does not.
C3_TruncatedRecordFails ==
    (op.name = "loadFromKittiVelodyneFile" /\ kittiFiles[op.file].exists)
    => LET L == Len(OpenedStream(op.file)) IN
       /\ ret.status \in {"true", "false"}
       /\ L % 16 = 0 => (ret.status = "true" /\ Lengths = <<L \div 16, L \div 16, L \div 16, L \div 16>>)
       /\ L % 16 # 0 => ret.status = "false"

\* C3 witness: the 20-byte trunc.bin was loaded; the call returned false
\* after the one whole record.
C3_Witness ==
    /\ op.name = "loadFromKittiVelodyneFile"
    /\ op.file = <<"trunc", "bin">>
    /\ Len(OpenedStream(op.file)) = 20
    /\ ret.status = "false"
    /\ Len(m_x) = 1

\* C4: resize(n) on a cloud of length N sets the length to n, leaves every
\* index below min(N, n) unchanged in all four buffers, and gives every new
\* index x = y = z = 0 and intensity 1.0.
C4_ResizeKeepsAndFills ==
    [][op'.name = "resize" =>
         LET n == op'.n
             N == Len(m_x)
         IN /\ Lengths' = <<n, n, n, n>>
            /\ \A k \in 1..Min(N, n) :
                  /\ m_x'[k] = m_x[k]
                  /\ m_y'[k] = m_y[k]
                  /\ m_z'[k] = m_z[k]
                  /\ m_intensity'[k] = m_intensity[k]
            /\ \A k \in (N + 1)..n :
                  /\ m_x'[k] = F_ZERO
                  /\ m_y'[k] = F_ZERO
                  /\ m_z'[k] = F_ZERO
                  /\ m_intensity'[k] = F_ONE]_vars

\* C5: setSize(n) sets the length to n and leaves every one of the n points
\* with x = y = z = 0 and intensity 0.0, whatever the cloud held before.
C5_SetSizeResetsAll ==
    op.name = "setSize" =>
       /\ Lengths = <<op.n, op.n, op.n, op.n>>
       /\ \A k \in 1..op.n :
             /\ m_x[k] = F_ZERO
             /\ m_y[k] = F_ZERO
             /\ m_z[k] = F_ZERO
             /\ m_intensity[k] = F_ZERO

\* C5 witness: setSize(MaxPts) has returned with MaxPts points.
C5_Witness ==
    /\ op.name = "setSize"
    /\ op.n = MaxPts
    /\ Len(m_x) = MaxPts
    /\ Len(m_intensity) = MaxPts

IndexedOps == {"setPointRGB", "getPointRGB", "setPointIntensity", "getPointIntensity"}

\* C6: setPointRGB, getPointRGB, setPointIntensity and getPointIntensity with
\* index >= length fail with the out-of-bounds error and leave the four
\* buffers and the modified flag as they were.
C6_IndexOutOfBounds ==
    [][(op'.name \in IndexedOps /\ op'.n >= Len(m_x)) =>
         /\ ret'.status = "throw"
         /\ cloud' = cloud
         /\ modified' = modified]_vars

\* C6 witness: setPointRGB was called past the end of a CLEAN cloud of two
\* points and threw.
C6_Witness ==
    /\ op.name = "setPointRGB"
    /\ op.n >= Len(m_x)
    /\ ret.status = "throw"
    /\ Len(m_x) = 2
    /\ modified = "CLEAN"

\* C7: insertPointFast(x, y, z) on a cloud of length N appends one point at
\* index N with those coordinates, leaves every index below N unchanged in
\* all four buffers, and leaves the modified flag as it was.
C7_InsertPointFastFrame ==
    [][op'.name = "insertPointFast" =>
         LET N == Len(m_x) IN
         /\ Len(m_x') = N + 1 /\ Len(m_y') = N + 1 /\ Len(m_z') = N + 1
         /\ Len(m_intensity') = Len(m_intensity) + 1
         /\ <<m_x'[N + 1], m_y'[N + 1], m_z'[N + 1]>> = op'.pt
         /\ \A k \in 1..N :
               m_x'[k] = m_x[k] /\ m_y'[k] = m_y[k] /\ m_z'[k] = m_z[k]
         /\ \A k \in 1..Len(m_intensity) : m_intensity'[k] = m_intensity[k]
         /\ modified' = modified]_vars

\* C7 witness: insertPointFast returned on a cloud that is still CLEAN and
\* now holds two points.
C7_Witness ==
    /\ op.name = "insertPointFast"
    /\ modified = "CLEAN"
    /\ Len(m_x) = 2
    /\ <<m_x[2], m_y[2], m_z[2]>> = op.pt

MarkingOps ==
    {"resize", "setSize", "clear", "setPointRGB", "insertPointRGB", "serializeFrom",
     "loadXYZI_from_text_file", "loadFromKittiVelodyneFile"}

\* C8: resize, setSize, clear, setPointRGB, insertPointRGB, serializeFrom,
\* loadXYZI_from_text_file and a successful loadFromKittiVelodyneFile return
\* with the cloud DIRTY, and no step other than insertPointFast changes the
\* point count or a coordinate and leaves the cloud CLEAN.
C8_ChangesMarkDirty ==
    [][/\ (op'.name \in MarkingOps /\ ret'.status \in {"ok", "true"})
            => modified' = "DIRTY"
       /\ (<<m_x, m_y, m_z>>' # <<m_x, m_y, m_z>> /\ op'.name # "insertPointFast")
            => modified' = "DIRTY"]_vars

\* C8 witness: loadXYZI_from_text_file returned true with the two points of
\* pts.txt and the cloud is DIRTY.
C8_Witness ==
    /\ op.name = "loadXYZI_from_text_file"
    /\ ret.status = "true"
    /\ Len(m_x) = 2
    /\ modified = "DIRTY"

\* C9: setPointIntensity(index, I) with index < length changes
\* m_intensity[index] and nothing else (not x, y, z, another intensity, the
\* length or the modified flag); getPointRGB and getPointIntensity never
\* change the modified flag.
C9_SetIntensityFrame ==
    [][/\ (op'.name = "setPointIntensity" /\ op'.n < Len(m_x)) =>
            /\ ret'.status = "ok"
            /\ <<m_x, m_y, m_z>>' = <<m_x, m_y, m_z>>
            /\ Len(m_intensity') = Len(m_intensity)
            /\ m_intensity'[op'.n + 1] = op'.val
            /\ \A k \in 1..Len(m_intensity) :
                  k # op'.n + 1 => m_intensity'[k] = m_intensity[k]
            /\ modified' = modified
       /\ op'.name \in {"getPointRGB", "getPointIntensity"} => modified' = modified]_vars

\* C9 witness: setPointIntensity wrote the second of two points of a CLEAN
\* cloud.
C9_Witness ==
    /\ op.name = "setPointIntensity"
    /\ op.n = 1
    /\ ret.status = "ok"
    /\ Len(m_x) = 2
    /\ m_intensity[2] = op.val
    /\ modified = "CLEAN"

\* The number of lines before the first one that does not parse.
LeadingParsed(lines) ==
    Cardinality({k \in 1..Len(lines) : \A j \in 1..k : LineParses(lines[j])})

\* C10: loadXYZI_from_text_file on an openable file returns true, stops at
\* the first line that does not parse as four floats, and leaves one point
\* per earlier line, in file order, the k-th point's x, y, z and intensity
\* being the four fields of the k-th line.
C10_TolerantTextLoad ==
    (op.name = "loadXYZI_from_text_file" /\ textFiles[op.file].exists)
    => LET lines == textFiles[op.file].lines
           K == LeadingParsed(lines)
       IN /\ ret.status = "true"
          /\ Lengths = <<K, K, K, K>>
          /\ \A k \in 1..K :
                /\ m_x[k] = ParseFloat(lines[k][1])
                /\ m_y[k] = ParseFloat(lines[k][2])
                /\ m_z[k] = ParseFloat(lines[k][3])
                /\ m_intensity[k] = ParseFloat(lines[k][4])

\* C11: addFrom(other, previousLength) with other holding n points: when other
\* is a CPointsMapXYZI, afterwards intensity[previousLength + i] equals
\* other.intensity[i] for every i < n; every intensity entry below
\* previousLength is unchanged; when other has no intensity, the appended
\* points keep the default intensity resize() creates them with.
C11_AddFromIntensity ==
    [][op'.name = "addFrom"
       => LET other == op'.anotherMap
              previousLength == op'.n
              n == Len(other.x)
          IN
          /\ \A j \in 1..previousLength : m_intensity'[j] = m_intensity[j]
          /\ other.type = "CPointsMapXYZI"
                => \A i \in 1..n : m_intensity'[previousLength + i] = other.i[i]
          /\ other.type # "CPointsMapXYZI"
                => \A i \in 1..n : m_intensity'[previousLength + i] = F_ONE]_vars

\* C12: in every call of execute, for every maxIter >= 0 and every residual
\* functor, the iteration counter never exceeds the configured maximum: at
\* every point of the loop and in the returned out_info iterations_executed
\* <= maxIter, and no path row at an index >= maxIter is ever written.
C12_IterWithinMax ==
    /\ lm.pc \in {"while", "body", "exit", "returned"} => lm.iter <= lm.in.maxIter
    /\ lm.pc = "returned" => out_info.iterations_executed <= lm.in.maxIter
    /\ \A row \in lm.rows_written : row < lm.in.maxIter

\* C13: a run of execute goes from its initialisation through the loop to
\* one of two ends, converged or iteration cap reached. When the cap is hit
\* with neither convergence test having fired, execute leaves the loop and
\* returns normally, and the result tells the two ends apart: a converged
\* run returns iterations_executed < maxIter, a capped run does not.
C13_CapIsDistinct ==
    [][/\ (lm.pc = "while" /\ ~lm.found /\ lm.iter + 1 >= lm.in.maxIter)
             => lm'.pc = "exit"
       /\ lm.pc = "exit" => lm'.pc = "returned"
       /\ lm'.pc = "returned"
             => (lm'.found <=> out_info'.iterations_executed < lm'.in.maxIter)]_vars

\* A matrix with a diagonal entry that is not positive is not
\* positive-definite.
DiagonalNotPositive(A) == \E k \in 1..Len(A) : A[k][k].m <= 0

C15_LambdaPositive ==
    (lm.pc \in {"while", "body", "exit", "returned"} /\ lm.in.tau.m > 0)
        => lm.lambda.m > 0

\* The call of the toy test: f(x) = x - 5 from x0 = 0 with the default
\* maxIter, tau, e1 and e2 and no increment functor.
ToyCall ==
    /\ lm.pc # "idle"
    /\ lm.in.functor = "x_minus_5"
    /\ lm.in.x0 = <<F0>>
    /\ Len(lm.in.increments) = 1
    /\ lm.in.maxIter = DefaultMaxIter
    /\ lm.in.tau = DefaultTau
    /\ lm.in.e1 = DefaultE
    /\ lm.in.e2 = DefaultE
    /\ lm.in.x_increment_adder = "nullptr"

\* C16: on f(x) = x - 5 from x0 = 0 with the default settings execute does
\* not fail, leaves its loop converged and returns with
\* iterations_executed < maxIter, out_optimal_x within e2 of 5 and
\* final_sqr_err within e2 of 0.
C16_ToyConverges ==
    ToyCall =>
        /\ lm.pc # "thrown"
        /\ lm.pc \in {"exit", "returned"} => lm.found
        /\ lm.pc = "returned" =>
              /\ out_info.iterations_executed < lm.in.maxIter
              /\ FLeq(FAbs(FSub(out_optimal_x[1], FInt(5))), lm.in.e2)
              /\ FLeq(out_info.final_sqr_err, lm.in.e2)

\* The toy call has returned after at least one accepted step.
C16_Witness ==
    /\ ToyCall
    /\ lm.pc = "returned"
    /\ out_info.iterations_executed > 0
    /\ out_optimal_x # lm.in.x0

\* C17: execute keeps no state across calls and is deterministic: a call
\* that returns after an earlier call with equal arguments returns the
\* out_optimal_x and the out_info (final_sqr_err, initial_sqr_err,
\* iterations_executed, last_err_vector, path, H) that the earlier call
\* returned, whatever out_info and out_optimal_x held before either call
\* and whatever calls were made in between.
C17_Deterministic ==
    (lm.pc = "returned" /\ last.kept /\ last.in = lm.in)
        => /\ out_optimal_x = last.x
           /\ out_info = last.info

\* C18: a pass of the loop whose denominator h_lm . (lambda h_lm - g) is
\* zero, so that the gain ratio l is infinite or undefined, ends execute
\* with a numerical failure; such a ratio is never judged as an ordinary
\* accepted or rejected step.
C18_ZeroDenominatorFails ==
    lm.l.kind # "num" => (lm.pc = "thrown" /\ lm.branch \notin {"accepted", "rejected"})

\* Column j of B, and the transpose of M.
Column(B, j) == [k \in 1..Rows(B) |-> B[k][j]]

Transpose(M) == [j \in 1..Cols(M) |-> Column(M, j)]

\* C is the rows x cols matrix product of A and B.
IsProduct(C, A, B) ==
    /\ Rows(C) = Rows(A)
    /\ \A i \in 1..Rows(C) :
          /\ Len(C[i]) = Cols(B)
          /\ \A j \in 1..Cols(B) : C[i][j] = Dot(A[i], Column(B, j))
    /\ Transpose(C) = matProductOf_AB(Transpose(B), Transpose(A)).out

Square(H, n) == Rows(H) = n /\ \A i \in 1..n : Len(H[i]) = n

Symmetric(H) == \A i, j \in 1..Rows(H) : H[i][j] = H[j][i]

\* Every principal minor of order 1 and 2 of H is >= 0, the products taken
\* in the solver's arithmetic.
PositiveSemidefinite(H) ==
    \A i, j \in 1..Rows(H) :
        /\ H[i][i].m >= 0
        /\ FLeq(Sqr(H[i][j]), FMul(H[i][i], H[j][j]))

\* C20: matProductOf_AtA(J) is a square matrix of J.cols rows with
\* result(i, j) = result(j, i), so out_info.H, which is J^t J after the
\* initialisation and after every accepted step, is symmetric and
\* positive-semidefinite wherever execute is past its initialisation.
C20_HessianSymmetricPSD ==
    lm.pc \in {"while", "body", "exit", "returned"}
        => /\ out_info.H = matProductOf_AtA(lm.J)
           /\ Square(out_info.H, Cols(lm.J))
           /\ Cols(lm.J) = Len(lm.in.x0)
           /\ Symmetric(out_info.H)
           /\ PositiveSemidefinite(out_info.H)

\* A step in two parameters has been accepted and H is not diagonal.
C20_Witness ==
    /\ lm.pc \in {"while", "body", "exit", "returned"}
    /\ lm.branch = "accepted"
    /\ Rows(out_info.H) = 2
    /\ out_info.H[1][2].m # 0

\* C21: in every pass of the loop that tries a step, the candidate xnew is
\* what the increment functor makes of (x, h_lm) when one is passed, and
\* x + h_lm when none is; an accepted candidate becomes x as it is.
C21_CandidateFromAdder ==
    [][(lm.pc = "body" /\ lm'.candidates # lm.candidates)
          => /\ lm'.candidates = lm.candidates + 1
             /\ lm'.xnew = IF lm.in.x_increment_adder = "nullptr"
                           THEN VAdd(out_optimal_x, lm'.h_lm)
                           ELSE x_increment_adder(lm.in.x_increment_adder,
                                                  out_optimal_x, lm'.h_lm)
             /\ lm'.f_xnew = functor(lm.in.functor, lm'.xnew)
             /\ lm'.branch = "accepted" => out_optimal_x' = lm'.xnew]_vars

\* A candidate made by the increment functor, which differs from x + h_lm,
\* has been accepted.
C21_Witness ==
    /\ lm.pc = "while"
    /\ lm.in.x_increment_adder = "halved"
    /\ lm.branch = "accepted"
    /\ out_optimal_x = lm.xnew
    /\ lm.candidates > 0

\* The gradient g = J^t f(x0) at the starting point of the call, for
\* increments of the length of x0.
StartGradient ==
    matProductOf_Atb(estimateJacobian(lm.in.x0, lm.in.functor, lm.in.increments),
                     functor(lm.in.functor, lm.in.x0))

\* The call starts at a point that is already optimal.
OptimalStart ==
    /\ lm.pc # "idle"
    /\ Len(lm.in.increments) = Len(lm.in.x0)
    /\ FLeq(norm_inf(StartGradient), lm.in.e1)

\* C22: a call whose starting point has norm_inf(J^t f(x0)) <= e1 converges
\* at once: it does not fail, it never enters the loop body or evaluates
\* the residual at a candidate, and it returns iterations_executed = 0,
\* out_optimal_x = x0 and final_sqr_err = initial_sqr_err.
C22_OptimalStart ==
    OptimalStart =>
        /\ lm.pc \in {"call", "while", "exit", "returned"}
        /\ lm.iter = 0
        /\ lm.candidates = 0
        /\ lm.pc # "call" => (lm.found /\ out_optimal_x = lm.in.x0)
        /\ lm.pc = "returned" =>
              /\ out_info.iterations_executed = 0
              /\ out_info.final_sqr_err = out_info.initial_sqr_err

\* The step h_lm = -(inverse(H + lambda I) g) of the pass about to run.
StepOf(AUX) == VScale(matProductOf_Ab(AUX.inv, lm.g), FNeg(FOne))

\* The pass about to run finds norm(h_lm) < e2 * (norm(x) + e2).
StepTooSmall(AUX) ==
    /\ AUX.ok
    /\ FLess(norm(StepOf(AUX)),
             FMul(lm.in.e2, FAdd(norm(out_optimal_x), lm.in.e2)))

\* C23: a pass of the loop whose step has norm(h_lm) < e2 * (norm(x) + e2)
\* sets found without evaluating the residual at a candidate and without
\* changing x, f_x, F_x, lambda or v; after it the loop is left and execute
\* returns the x held at the start of that pass.
C23_SmallStepConverges ==
    [][/\ (lm.pc = "body" /\ StepTooSmall(inverse_LLt(damped(out_info.H, lm.lambda))))
             => /\ lm'.pc = "while"
                /\ lm'.found
                /\ lm'.branch = "small_step"
                /\ lm'.candidates = lm.candidates
                /\ out_optimal_x' = out_optimal_x
                /\ lm'.f_x = lm.f_x
                /\ lm'.F_x = lm.F_x
                /\ lm'.lambda = lm.lambda
                /\ lm'.v = lm.v
       /\ (lm.branch = "small_step" /\ lm.pc \in {"while", "exit"})
             => /\ lm'.pc \in {"exit", "returned"}
                /\ lm'.iter = lm.iter
                /\ out_optimal_x' = out_optimal_x
                /\ lm'.F_x = lm.F_x]_vars

\* A run that ended by the step-size test has returned.
C23_Witness ==
    /\ lm.pc = "returned"
    /\ lm.branch = "small_step"
    /\ out_info.final_sqr_err = lm.F_x

\* l > 0 for the outcome l of the division of line 208.
RatioPositive(l) == l.kind = "inf" \/ (l.kind = "num" /\ FLess(F0, l.val))

\* The Jacobian estimated at x.
JacobianAt(x) == estimateJacobian(x, lm.in.functor, lm.in.increments)

\* C24: in every pass of the loop that tries a step, the ratio is
\* l = (F_x - F_xnew) / (h_lm . (lambda h_lm - g)) and xnew replaces x if
\* and only if l > 0. An accepted step recomputes J, H and g at the new x,
\* takes found from norm_inf(g) <= e1 and resets v to 2; a rejected one
\* leaves x, f_x, F_x, J, H and g as they were.
C24_AcceptanceRule ==
    [][(lm.pc = "body" /\ lm'.candidates # lm.candidates)
          => /\ lm'.l = FDiv(FSub(lm.F_x, Sqr(norm(lm'.f_xnew))),
                             Dot(VSub(VScale(lm'.h_lm, lm.lambda), lm.g), lm'.h_lm))
             /\ lm'.branch \in {"accepted", "rejected"}
             /\ lm'.branch = "accepted" <=> RatioPositive(lm'.l)
             /\ lm'.branch = "accepted"
                   => /\ out_optimal_x' = lm'.xnew
                      /\ lm'.f_x = lm'.f_xnew
                      /\ lm'.F_x = Sqr(norm(lm'.f_xnew))
                      /\ lm'.J = JacobianAt(lm'.xnew)
                      /\ out_info'.H = matProductOf_AtA(lm'.J)
                      /\ lm'.g = matProductOf_Atb(lm'.J, lm'.f_x)
                      /\ lm'.found = FLeq(norm_inf(lm'.g), lm.in.e1)
                      /\ lm'.v = FTwo
             /\ lm'.branch = "rejected"
                   => /\ out_optimal_x' = out_optimal_x
                      /\ lm'.f_x = lm.f_x
                      /\ lm'.F_x = lm.F_x
                      /\ lm'.J = lm.J
                      /\ out_info'.H = out_info.H
                      /\ lm'.g = lm.g
                      /\ lm'.found = lm.found]_vars

\* A step has been rejected after an accepted one moved x.
C24_Witness ==
    /\ lm.pc = "while"
    /\ lm.branch = "rejected"
    /\ out_optimal_x # lm.in.x0
    /\ out_optimal_x # lm.xnew

\* a * 2^n for n >= 0: the exponent of a raised by n, an infinity if that
\* leaves the finite numbers.
TimesPow2(a, n) == IF a.m = 0 \/ IsInf(a) THEN a ELSE Flush(a.m, a.e + n)

\* A pass of the loop rejects its step.
Rejects == lm.pc = "body" /\ lm'.branch = "rejected" /\ lm'.candidates # lm.candidates

\* What a rejected step does to lambda and v, and what k rejected steps in a
\* row have made of them: v = 2^(k+1), lambda = 2^(k(k+1)/2) times the
\* lambda the run started with.
Escalates ==
    /\ lm'.lambda = FMul(lm.lambda, lm.v)
    /\ lm'.v = FMul(lm.v, FTwo)
    /\ lm'.rejections = lm.rejections + 1
    /\ lm'.v = TimesPow2(FOne, lm'.rejections + 1)
    /\ lm'.lambda = TimesPow2(lm'.lambda_run,
                              (lm'.rejections * (lm'.rejections + 1)) \div 2)

Accepts == lm.pc = "body" /\ lm'.branch = "accepted" /\ lm'.candidates # lm.candidates

RatioAtLeastHalf(l) == l.kind = "inf" \/ (l.kind = "num" /\ FLeq(FRat(1, 2), l.val))

C27_WrongIncrementsFailFast ==
    [][/\ (lm.pc = "call" /\ Len(lm.in.increments) # Len(lm.in.x0))
             => /\ lm'.pc = "thrown"
                /\ out_optimal_x' = out_optimal_x
                /\ out_info' = out_info
                /\ lm'.f_x = <<>>
                /\ lm'.J = <<>>
                /\ lm'.candidates = 0
       /\ (lm.pc = "thrown" /\ Len(lm.in.increments) # Len(lm.in.x0))
             => UNCHANGED <<lm, out_optimal_x, out_info>>]_vars

\* A call with two increments for one parameter has failed, with what an
\* earlier use left in out_info and out_optimal_x still there.
C27_Witness ==
    /\ lm.pc = "thrown"
    /\ Len(lm.in.increments) # Len(lm.in.x0)
    /\ out_info.iterations_executed = 7
    /\ out_optimal_x = <<Stale>>

\* C28: the tracked sum of squared errors never increases during a call of
\* execute: no pass of the loop body leaves F_x larger than it found it, and
\* on every normal return final_sqr_err <= initial_sqr_err.
C28_ErrorNeverIncreases ==
    [][/\ lm.pc = "body" => FLeq(lm'.F_x, lm.F_x)
       /\ (lm.pc = "exit" /\ lm'.pc = "returned")
             => FLeq(out_info'.final_sqr_err, out_info'.initial_sqr_err)]_vars

\* Matrix M has a row k (counted from 0) and it starts with the vector v.
RowIs(M, k, v) ==
    /\ k + 1 <= Rows(M)
    /\ Len(v) <= Len(M[k + 1])
    /\ SubSeq(M[k + 1], 1, Len(v)) = v

\* The path as execute returns it has iterations_executed rows of N + 1
\* columns.
PathShape ==
    /\ Rows(out_info'.path) = out_info'.iterations_executed
    /\ \A r \in 1..Rows(out_info'.path) : Len(out_info'.path[r]) = Len(lm.in.x0) + 1

\* Every pass that tries a step writes the x it leaves to row iter.
PathRowWritten ==
    (lm.pc = "body" /\ lm.in.returnPath /\ lm'.candidates # lm.candidates)
       => /\ RowIs(out_info'.path, lm.iter, out_optimal_x')
          /\ \A k \in 0..(Rows(out_info.path) - 1) :
                k # lm.iter => out_info'.path[k + 1] = out_info.path[k + 1]

\* The rows of the returned path are the rows written during the run.
PathRowsKept ==
    \A k \in 0..(Rows(out_info'.path) - 1) :
       /\ k + 1 <= Rows(out_info.path)
       /\ Len(lm.in.x0) <= Len(out_info.path[k + 1])
       /\ RowIs(out_info'.path, k, SubSeq(out_info.path[k + 1], 1, Len(lm.in.x0)))

\* The returned path starts at x0 and ends at the returned out_optimal_x.
PathEnds ==
    Rows(out_info'.path) > 0
       => /\ RowIs(out_info'.path, 0, lm.in.x0)
          /\ RowIs(out_info'.path, Rows(out_info'.path) - 1, out_optimal_x')

\* execute returns.
Returns == lm.pc = "exit" /\ lm'.pc = "returned"

\* C29: with returnPath the returned path has iterations_executed rows and
\* N + 1 columns, row 0 holds x0, row k holds the parameter vector held
\* after iteration k, and the last row is the returned out_optimal_x however
\* the run ended; without returnPath the path is the empty matrix.
C29_PathRecordsRun ==
    [][/\ PathRowWritten
       /\ (Returns /\ lm.in.returnPath) => PathShape /\ PathRowsKept /\ PathEnds
       /\ (Returns /\ ~lm.in.returnPath) => out_info'.path = <<>>]_vars

\* C30: the result is self-consistent at every loop head and on return:
\* the residuals held are the functor's output at the current
\* out_optimal_x, the tracked error is their squared Euclidean norm, and
\* out_info.H is J^t J for the Jacobian estimated there; on return
\* last_err_vector and final_sqr_err are those residuals and that error.
C30_ResultSelfConsistent ==
    /\ lm.pc \in {"while", "exit", "returned"}
          => /\ lm.f_x = functor(lm.in.functor, out_optimal_x)
             /\ lm.F_x = Sqr(norm(lm.f_x))
             /\ lm.J = JacobianAt(out_optimal_x)
             /\ out_info.H = matProductOf_AtA(JacobianAt(out_optimal_x))
    /\ lm.pc = "returned"
          => /\ out_info.last_err_vector = functor(lm.in.functor, out_optimal_x)
             /\ out_info.final_sqr_err = Sqr(norm(out_info.last_err_vector))

\* execute has returned an x other than x0 after three iterations, the last
\* of which rejected its candidate.
C30_Witness ==
    /\ lm.pc = "returned"
    /\ out_info.iterations_executed = 3
    /\ out_optimal_x # lm.in.x0
    /\ lm.branch = "rejected"
    /\ lm.f_xnew # lm.f_x
    /\ out_info.last_err_vector = functor(lm.in.functor, out_optimal_x)

====
